---- MODULE Spec2Model ----
(***************************************************************************)
(* masq: the shotgun background-removal engine.                            *)
(*                                                                         *)
(*   core    : cogs/masq/core.py       Masq.remove_background              *)
(*   service : service/services/shotgun.py  ShotgunService.execute         *)
(*                                                                         *)
(* Time is the event loop's clock in seconds, observed every BatchSlack    *)
(* seconds.  A behaviour runs one call of one of the two engines; `sys`    *)
(* says which one, and the variables of the call (its tasks, its result)   *)
(* are those of that engine.                                               *)
(***************************************************************************)
EXTENDS Integers, Sequences, FiniteSets, TLC

VARIABLES
    sys,            \* which engine this behaviour runs: "core" or "service"
    clock,          \* event-loop time, seconds since the call started
    \* ---- the engine instance and its one call
    runware_key,    \* Masq.runware_key / settings.runware_api_key is set
    kie_key,        \* Masq.kie_key / settings.kie_api_key is set
    runware_client, \* Masq._runware_client: "none", "unconnected", "connected"
    available,      \* the list _get_available_models returned / the keys of
                    \* active_providers
    tasks,          \* the units of the call, by position in `available`
    executor,       \* the module's ThreadPoolExecutor: queued and running jobs, and
                    \* the jobs whose thread ended after the call had returned
    finished,       \* task positions in the order the tasks completed
    collected,      \* task positions in the order `for task in done` visited them
    results,        \* ShotgunResult.results of the call
    total_time,     \* ShotgunResult.total_time_ms of the call, in seconds
    pc,             \* the call: "idle", "waiting" (its units run), "returned";
                    \* remove_background_single: "single", "returned_single"
    \* ---- service only
    parallel,       \* shotgun_config["parallel"]
    counts,         \* ShotgunResult.total_cost, successful_count, failed_count
    \* ---- the resolution of a request, taken alone (DispatchSpec)
    request,        \* the `models` argument: [is_none, ids]
    providers,      \* ShotgunService._providers: the registered names, in order
    default_models, \* shotgun_config["default_models"]
    \* ---- concurrent calls on one instance (ConcSpec)
    calls,          \* per invocation: its position, its units, its ShotgunResult
    pool,           \* the module's ThreadPoolExecutor, shared by all calls
    local_sessions, \* keys of Masq._local_sessions / providers whose _session is set
    loads,          \* per key, how many times new_session was called
    \* ---- the /process endpoint (PipeSpec)
    flags,          \* the form fields remove_background and upscale
    bg_result,      \* what shotgun.execute returned: [results, counts]
    pipeline,       \* results["pipeline"]
    summary,        \* results["summary"]
    pipe_pc,        \* process_pipeline: "idle", "loop", "upscale" (it awaits
                    \* upscale_base64), "returned"
    \* ---- the selection of a result (SelectSpec)
    job,            \* the outcomes of the job the user chooses from
    view,           \* the ModelSelectView of bg_command
    logged,         \* the selections written to the log, in order
    \* ---- the Lanczos transform (UpscaleSpec)
    transform,      \* one call of upscale: its arguments, the clamped scale, what
                    \* the worker thread did and the image it wrote
    up_result,      \* the UpscaleResult the call returned
    \* ---- the polling of one Kie task (KiePollSpec)
    kie             \* the unit: where it is, the polls it made, its outcome

callVars == <<runware_key, kie_key, runware_client, available, tasks, executor,
              finished, collected, results, total_time, pc, parallel, counts>>

\* the variables of the other specifications, which a step of the call leaves alone
dispatchVars == <<request, providers, default_models>>
concVars == <<calls, pool, local_sessions, loads>>
pipeVars == <<flags, bg_result, pipeline, summary, pipe_pc>>
selVars == <<job, view, logged>>
upVars == <<transform, up_result>>
kieVars == <<kie>>
others == <<dispatchVars, concVars, pipeVars, selVars, upVars, kieVars>>

vars == <<sys, clock, callVars, others>>

\* what a step of one unit leaves alone
frame == <<others, sys, clock, runware_key, kie_key, available, collected, results, total_time,
           pc, parallel, counts>>

-----------------------------------------------------------------------------
(* Bounds *)

MaxUnits == 2       \* longest request list drawn, and most tasks dispatched
MaxTicks == 6       \* the clock stops after MaxTicks observations
MaxCalls == 2       \* concurrent invocations on one instance
MaxSelections == 2  \* selections attempted for one job
MaxSide == 2        \* largest width and height of an input image

-----------------------------------------------------------------------------
(* Program constants *)

DefaultTimeout == 120       \* Masq.__init__(timeout=120)
BatchSlack == 30            \* asyncio.wait(timeout=self.timeout + 30)
MaxWorkers == 2             \* ThreadPoolExecutor(max_workers=2)
KiePolls == 60              \* for _ in range(60)
KiePollTimeout == 10        \* client.get(.../jobs/recordInfo, timeout=10)
KiePollSleep == 2           \* await asyncio.sleep(2)

NoError == "None"
NoTimer == -1
NoResult ==
    [model_id |-> "none", provider |-> "none", status |-> "none",
     has_image |-> FALSE, error |-> NoError, cost |-> 0]
NoEvent == [kind |-> "none", msg |-> NoError]
NoRequest == [is_none |-> TRUE, ids |-> <<>>]    \* models=None

\* ModelStatus
ModelStatus == {"success", "failed", "timeout", "unavailable"}

\* MODELS; cost in units of 0.0001 USD
MODELS ==
    [runware_rmbg2 |-> [provider |-> "runware", cost |-> 6, priority |-> 1],
     runware_birefnet_portrait |-> [provider |-> "runware", cost |-> 6, priority |-> 2],
     kie_recraft |-> [provider |-> "kie", cost |-> 50, priority |-> 3],
     local_birefnet |-> [provider |-> "local", cost |-> 0, priority |-> 4],
     local_isnet |-> [provider |-> "local", cost |-> 0, priority |-> 5]]

DEFAULT_SHOTGUN_MODELS ==
    <<"runware_rmbg2", "runware_birefnet_portrait", "kie_recraft",
      "local_birefnet", "local_isnet">>

\* The ids a caller may put in an explicit request: one per backend and one unknown.
RequestIds == {"runware_rmbg2", "kie_recraft", "local_birefnet", "no_such_model"}

\* The messages of the exceptions a backend call may raise.
Errors == {"HTTPStatusError"}

-----------------------------------------------------------------------------
(* Helpers *)

SeqsUpTo(S, n) == UNION {[1..k -> S] : k \in 0..n}

Range(s) == {s[i] : i \in 1..Len(s)}

\* The explicit requests considered: up to MaxUnits ids, unknown ones included
\* and repetitions allowed, listed in catalogue order as DEFAULT_SHOTGUN_MODELS
\* is (the units of a call do not depend on their position in the request).
RequestRank(id) ==
    IF id \in DOMAIN MODELS THEN MODELS[id].priority ELSE Cardinality(DOMAIN MODELS) + 1

Requests ==
    {s \in SeqsUpTo(RequestIds, MaxUnits) :
        \A a, b \in DOMAIN s : a < b => RequestRank(s[a]) <= RequestRank(s[b])}

\* all orders in which the elements of the finite set S can be visited
Orders(S) ==
    {o \in [1..Cardinality(S) -> S] : \A a \in S : \E k \in DOMAIN o : o[k] = a}

-----------------------------------------------------------------------------
(* core: ModelResult and ShotgunResult *)

ModelResult(model_id, provider, status, has_image, error, cost) ==
    [model_id |-> model_id, provider |-> provider, status |-> status,
     has_image |-> has_image, error |-> error, cost |-> cost]

\* ModelResult.is_success
is_success(r) == r.status = "success" /\ r.has_image

\* ShotgunResult.successful
successful(rs) == SelectSeq(rs, is_success)

RECURSIVE SumCost(_)
SumCost(rs) == IF rs = <<>> THEN 0 ELSE Head(rs).cost + SumCost(Tail(rs))

\* ShotgunResult.total_cost
total_cost(rs) == SumCost(rs)

\* ShotgunResult.to_dict: the derived counts
to_dict(rs) ==
    [successful_count |-> Len(successful(rs)),
     failed_count |-> Len(rs) - Len(successful(rs)),
     total_cost |-> total_cost(rs)]

-----------------------------------------------------------------------------
(* core: Masq._get_available_models *)

\* an availability test that ignores the keys: the sensitivity case of C13
ModelAvailable_keys_ignored(model_id, rk, kk) == model_id \in DOMAIN MODELS

ModelAvailable(model_id, rk, kk) ==
    /\ model_id \in DOMAIN MODELS
    /\ ~(MODELS[model_id].provider = "runware" /\ ~rk)
    /\ ~(MODELS[model_id].provider = "kie" /\ ~kk)

RECURSIVE _get_available_models(_, _, _)
_get_available_models(requested, rk, kk) ==
    IF requested = <<>> THEN <<>>
    ELSE (IF ModelAvailable(Head(requested), rk, kk) THEN <<Head(requested)>> ELSE <<>>)
         \o _get_available_models(Tail(requested), rk, kk)

-----------------------------------------------------------------------------
(* core: Masq._run_model: what the unit's try/except makes of how the       *)
(* backend call ended.                                                     *)

Returned == [kind |-> "return", msg |-> NoError]
RaisedTimeout == [kind |-> "TimeoutError", msg |-> "TimeoutError"]
Raised(e) == [kind |-> "Exception", msg |-> e]

\* _run_model with an `except Exception` that drops str(e): the sensitivity
\* case of C4
_run_model_message_lost(model_id, ev) ==
    LET config == MODELS[model_id] IN
    IF ev.kind = "return"
    THEN ModelResult(model_id, config.provider, "success", TRUE, NoError, config.cost)
    ELSE IF ev.kind = "TimeoutError"
    THEN ModelResult(model_id, config.provider, "timeout", FALSE, "Timeout after", 0)
    ELSE ModelResult(model_id, config.provider, "failed", FALSE, NoError, 0)

_run_model(model_id, ev) ==
    LET config == MODELS[model_id] IN
    IF ev.kind = "return"
    THEN ModelResult(model_id, config.provider, "success", TRUE, NoError, config.cost)
    ELSE IF ev.kind = "TimeoutError"
    THEN ModelResult(model_id, config.provider, "timeout", FALSE, "Timeout after", 0)
    ELSE ModelResult(model_id, config.provider, "failed", FALSE, ev.msg, 0)

Task(model_id) ==
    [model |-> model_id, ph |-> "new", dl |-> NoTimer, ev |-> NoEvent, res |-> NoResult]

Units == DOMAIN tasks

Running(i) == tasks[i].ph \notin {"done", "cancelled"}

Provider(i) == MODELS[tasks[i].model].provider

\* the task ends: _run_model returns its ModelResult
Finish(i, ev) ==
    /\ tasks' = [tasks EXCEPT ![i] = [model |-> tasks[i].model, ph |-> "done",
                                      dl |-> NoTimer, ev |-> ev,
                                      res |-> _run_model(tasks[i].model, ev)]]
    /\ finished' = Append(finished, i)

\* the task moves on to its next await
Goto(i, ph, dl) ==
    /\ tasks' = [tasks EXCEPT ![i] = [@ EXCEPT !.ph = ph, !.dl = dl]]
    /\ UNCHANGED finished

\* asyncio.wait_for(..., timeout=self.timeout) armed now
WaitFor == clock + DefaultTimeout

\* a wait_for of task i has expired
TimerDue(i) == Running(i) /\ tasks[i].dl # NoTimer /\ clock >= tasks[i].dl

\* asyncio.wait without its timeout: the sensitivity case of C8
WaitNeverExpires == FALSE

\* asyncio.wait(tasks, timeout=self.timeout + 30) has expired
WaitExpired == clock >= DefaultTimeout + BatchSlack

-----------------------------------------------------------------------------
(* core: the executor shared by _run_local *)

\* an executor without max_workers, one thread per job: the sensitivity case
\* of C18
Submit_unbounded(ex, i) == [ex EXCEPT !.running = @ \cup {i}]

\* loop.run_in_executor(_executor, _process): a free worker takes the job, else it queues
Submit(ex, i) ==
    IF Cardinality(ex.running) < MaxWorkers
    THEN [ex EXCEPT !.running = @ \cup {i}]
    ELSE [ex EXCEPT !.queue = Append(@, i)]

\* a worker thread ends its job and takes the next queued one
Release(ex, i) ==
    IF ex.queue = <<>>
    THEN [ex EXCEPT !.running = @ \ {i}]
    ELSE [ex EXCEPT !.queue = Tail(ex.queue),
                    !.running = (ex.running \ {i}) \cup {Head(ex.queue)}]

\* the futures of the jobs in S are cancelled: those not yet started never run
CancelJobs(ex, S) ==
    [ex EXCEPT !.queue = SelectSeq(@, LAMBDA j : j \notin S)]

-----------------------------------------------------------------------------
(* core: Masq.remove_background, up to its await of asyncio.wait *)

remove_background(models) ==
    /\ sys = "core" /\ pc = "idle"
    /\ LET avail == _get_available_models(models, runware_key, kie_key) IN
       /\ Len(avail) <= MaxUnits
       /\ available' = avail
       /\ tasks' = [i \in 1..Len(avail) |-> Task(avail[i])]
       /\ pc' = IF avail = <<>> THEN "returned" ELSE "waiting"
       /\ total_time' = IF avail = <<>> THEN clock ELSE total_time
    /\ UNCHANGED <<others, sys, clock, runware_key, kie_key, runware_client, executor,
                   finished, collected, results, parallel, counts>>

\* Masq.remove_background_single: an unknown id is answered at once, a known
\* one is run by _run_model whatever the keys
remove_background_single(model_id) ==
    /\ sys = "core" /\ pc = "idle"
    /\ IF model_id \notin DOMAIN MODELS
       THEN /\ results' = <<ModelResult(model_id, "unknown", "failed", FALSE,
                                        "Unknown model", 0)>>
            /\ pc' = "returned_single"
            /\ UNCHANGED <<available, tasks>>
       ELSE /\ available' = <<model_id>>
            /\ tasks' = <<Task(model_id)>>
            /\ pc' = "single"
            /\ UNCHANGED results
    /\ UNCHANGED <<others, sys, clock, runware_key, kie_key, runware_client, executor,
                   finished, collected, total_time, parallel, counts>>

\* remove_background_single returns what _run_model returned
SingleReturns ==
    /\ sys = "core" /\ pc = "single"
    /\ tasks[1].ph = "done"
    /\ results' = <<tasks[1].res>>
    /\ collected' = <<1>>
    /\ pc' = "returned_single"
    /\ UNCHANGED <<others, sys, clock, runware_key, kie_key, runware_client, available, tasks,
                   executor, finished, total_time, parallel, counts>>

\* the call is suspended and its units run
Active == sys = "core" /\ pc \in {"waiting", "single"}

\* a new task runs up to its first await (tasks start in creation order)
StartTask(i) ==
    /\ Active
    /\ tasks[i].ph = "new"
    /\ \A j \in Units : j < i => tasks[j].ph # "new"
    /\ CASE Provider(i) = "runware" ->
              \* _run_runware: create and connect the client only when there is none
              IF runware_client = "none"
              THEN /\ runware_client' = "unconnected"
                   /\ Goto(i, "connect", NoTimer)
                   /\ UNCHANGED executor
              ELSE /\ Goto(i, "request", WaitFor)
                   /\ UNCHANGED <<runware_client, executor>>
         [] Provider(i) = "kie" ->
              /\ Goto(i, "upload", NoTimer)
              /\ UNCHANGED <<runware_client, executor>>
         [] Provider(i) = "local" ->
              /\ Goto(i, "executor", WaitFor)
              /\ executor' = Submit(executor, i)
              /\ UNCHANGED runware_client
    /\ UNCHANGED frame

-----------------------------------------------------------------------------
(* core: Masq._run_runware *)

\* await self._runware_client.connect() returns
RunwareConnected(i) ==
    /\ Active /\ tasks[i].ph = "connect"
    /\ runware_client' = "connected"
    /\ Goto(i, "request", WaitFor)
    /\ UNCHANGED <<frame, executor>>

\* imageBackgroundRemoval answers within the wait_for: an image URL, inline
\* base64, an empty list, or a result without image
RunwareAnswer(i, answer) ==
    /\ Active /\ tasks[i].ph = "request"
    /\ CASE answer = "imageURL" -> Goto(i, "fetch", NoTimer)
         [] answer = "imageBase64" -> Finish(i, Returned)
         [] answer = "empty" -> Finish(i, Raised("No results from Runware"))
         [] answer = "no_image" -> Finish(i, Raised("No image in Runware response"))
    /\ UNCHANGED <<frame, runware_client, executor>>

\* client.get(result.imageURL) returns the image
RunwareFetched(i) ==
    /\ Active /\ tasks[i].ph = "fetch"
    /\ Finish(i, Returned)
    /\ UNCHANGED <<frame, runware_client, executor>>

-----------------------------------------------------------------------------
(* core: Masq._run_kie *)

KieNext(ph) ==
    CASE ph = "upload" -> "create"
      [] ph = "create" -> "poll"
      [] ph = "poll" -> "download"

\* the CDN upload, the createTask call or a poll that finds state "success"
\* hands over to the next step; none of them is under a wait_for
KieStep(i) ==
    /\ Active /\ tasks[i].ph \in {"upload", "create", "poll"}
    /\ Goto(i, KieNext(tasks[i].ph), NoTimer)
    /\ UNCHANGED <<frame, runware_client, executor>>

\* client.get(result_urls[0]) returns the image
KieDownloaded(i) ==
    /\ Active /\ tasks[i].ph = "download"
    /\ Finish(i, Returned)
    /\ UNCHANGED <<frame, runware_client, executor>>

\* all 60 polls saw neither "success" nor "fail": raise TimeoutError(...), the
\* builtin, which `except asyncio.TimeoutError` catches on Python 3.11 and later
\* and `except Exception` before
KiePollsExhausted(i, caught_as_timeout) ==
    /\ Active /\ tasks[i].ph = "poll"
    /\ clock >= KiePolls * KiePollSleep
    /\ Finish(i, IF caught_as_timeout THEN RaisedTimeout
                 ELSE Raised("Kie task did not complete"))
    /\ UNCHANGED <<frame, runware_client, executor>>

-----------------------------------------------------------------------------
(* core: any awaited backend call raising, and wait_for expiring *)

\* the await of a runware or kie task raises e (connect, request, fetch,
\* raise_for_status, a ValueError on a bad answer, state "fail")
BackendRaises(i, e) ==
    /\ Active
    /\ tasks[i].ph \in {"connect", "request", "fetch", "upload", "create", "poll", "download"}
    /\ Finish(i, Raised(e))
    /\ UNCHANGED <<frame, runware_client, executor>>

\* asyncio.wait_for raises TimeoutError in the task; the executor future of a
\* local task is cancelled, which stops the job only if it has not started
WaitForTimeout(i) ==
    /\ Active
    /\ TimerDue(i)
    /\ Finish(i, RaisedTimeout)
    /\ executor' = CancelJobs(executor, {i})
    /\ UNCHANGED <<frame, runware_client>>

-----------------------------------------------------------------------------
(* core: Masq._run_local: _process on a worker thread *)

\* a thread result that reaches a task whatever the task does: the
\* sensitivity case of C11
AwaitedWhatever(i) == TRUE

\* task i is suspended in wait_for(run_in_executor(...)): its future is neither
\* cancelled by wait_for nor by the cancellation of the task
Awaited(i) == Active /\ tasks[i].ph = "executor"

\* the job's thread has ended; `late` keeps the jobs that ended after the return
Ended(ex, i) ==
    [Release(ex, i) EXCEPT !.late = IF pc \in {"returned", "returned_single"}
                                    THEN @ \cup {i} ELSE @]

\* the thread running task i's _process ends: with the PNG bytes, or raising e.
\* The result reaches the task only if it still awaits it.
ThreadEnds(i, ev) ==
    /\ sys = "core"
    /\ i \in executor.running
    /\ executor' = Ended(executor, i)
    /\ IF Awaited(i)
       THEN Finish(i, ev)
       ELSE UNCHANGED <<tasks, finished>>
    /\ UNCHANGED <<frame, runware_client>>

-----------------------------------------------------------------------------
(* core: Masq.remove_background, from the return of asyncio.wait *)

\* isinstance(r, ModelResult)
IsModelResult(r) == r.status \in ModelStatus

\* asyncio.wait returns (done, pending): pending tasks are cancelled, the
\* results of the done ones are appended in the iteration order of the set
WaitReturns(order) ==
    /\ sys = "core" /\ pc = "waiting"
    /\ \A i \in Units : tasks[i].ph # "new"
    /\ (\A i \in Units : ~Running(i)) \/ WaitExpired
    /\ LET done == {i \in Units : tasks[i].ph = "done"}
           pending == Units \ done
       IN /\ order \in Orders(done)
          /\ tasks' = [i \in Units |->
                         IF i \in pending THEN [tasks[i] EXCEPT !.ph = "cancelled",
                                                                !.dl = NoTimer]
                         ELSE tasks[i]]
          /\ executor' = CancelJobs(executor, pending)
          /\ collected' = order
          /\ results' = SelectSeq([k \in 1..Len(order) |-> tasks[order[k]].res],
                                  IsModelResult)
    /\ pc' = "returned"
    /\ total_time' = clock
    /\ UNCHANGED <<others, sys, clock, runware_key, kie_key, runware_client, available, finished,
                   parallel, counts>>

\* time may pass for the core: the call is suspended, nothing is ready to run
\* and no timer is due (the clock is not followed after the call returned)
CoreTimePasses ==
    /\ sys = "core"
    /\ Active
    /\ \A i \in Units : tasks[i].ph # "new" /\ ~TimerDue(i)
    /\ \E i \in Units : Running(i)
    /\ pc = "waiting" => ~WaitExpired

-----------------------------------------------------------------------------
(* service: ProviderResult and ShotgunResult *)

ProviderTimeout == 30       \* BaseProvider: model_config.get("timeout", 30)
TotalTimeout == 90          \* shotgun_config.get("total_timeout", 90)
MinSuccessful == 1          \* shotgun_config.get("min_successful", 1)
ScaleLimit == 8             \* max(1, min(scale, 8)); UpscalerService max_scale
DefaultScale == 4           \* UpscalerService default_scale

\* ProviderStatus
ProviderStatus == {"success", "failed", "timeout", "unavailable"}

\* the models a configuration may enable, one per backend; their provider and
\* cost_per_image are those of the catalogue
ConfigModels == {"runware_rmbg2", "kie_recraft", "local_birefnet"}

ProviderResult(model_name, provider, status, has_image, error, cost) ==
    [model_name |-> model_name, provider |-> provider, status |-> status,
     has_image |-> has_image, error |-> error, cost |-> cost]

\* _create_error_result charging cost_per_image: the sensitivity case of C6
_create_error_result_charged(model_name, error, status) ==
    ProviderResult(model_name, "unknown", status, FALSE, error, MODELS[model_name].cost)

\* BaseProvider._create_error_result
_create_error_result(model_name, error, status) ==
    ProviderResult(model_name, "unknown", status, FALSE, error, 0)

\* ShotgunResult.__init__
NoCounts == [total_cost |-> 0, successful_count |-> 0, failed_count |-> 0]

\* units dispatched by all concurrent invocations together: one more than the
\* executor has workers, so that a job can find every worker busy
MaxJobs == MaxWorkers + 1

\* no invocation has been made: the instance and the executor as constructed
Calls == 1..MaxCalls
IdleCall == [pc |-> "idle", units |-> <<>>, results |-> <<>>, counts |-> NoCounts]
NoCalls ==
    /\ calls = [c \in Calls |-> IdleCall]
    /\ pool = [queue |-> <<>>, running |-> {}]
    /\ local_sessions = {}
    /\ loads = [m \in DOMAIN MODELS |-> 0]

\* results["summary"] as process_pipeline creates it
NoSummary == [background_removal |-> "None", upscaling |-> "None"]

\* UpscaleResult(success=False, error=...): every other field at its default
UpscaleFailure(error) ==
    [success |-> FALSE, has_image |-> FALSE, original_size |-> <<0, 0>>,
     upscaled_size |-> <<0, 0>>, scale_factor |-> 1, has_alpha |-> FALSE,
     error |-> error]

\* no Kie task was created
NoKie == kie = [pc |-> "idle", polls |-> 0, seen_success |-> FALSE, res |-> NoResult]

\* upscale has not been called
NoTransform ==
    /\ transform = [pc |-> "idle", image |-> [mode |-> "none", size |-> <<0, 0>>],
                    scale_arg |-> 0, scale_is_none |-> FALSE, preserve_alpha |-> TRUE,
                    scale |-> 0, steps |-> <<>>,
                    output |-> [mode |-> "none", size |-> <<0, 0>>]]
    /\ up_result = UpscaleFailure("not returned")

\* no ModelSelectView exists
NoView == [built |-> FALSE, buttons |-> <<>>, selected_model |-> "None",
           disabled |-> FALSE, accepted |-> 0, refused |-> 0, pending |-> 0,
           stopped |-> FALSE, waited |-> FALSE]

\* no job was presented and nothing was selected
NoSelection ==
    /\ job = <<>>
    /\ view = NoView
    /\ logged = <<>>

\* one call of one engine, not yet made, on an instance with both keys
NoCall ==
    /\ clock = 0
    /\ runware_key = TRUE
    /\ kie_key = TRUE
    /\ parallel = TRUE
    /\ runware_client = "none"
    /\ available = <<>>
    /\ tasks = <<>>
    /\ executor = [queue |-> <<>>, running |-> {}, late |-> {}]
    /\ finished = <<>>
    /\ collected = <<>>
    /\ results = <<>>
    /\ total_time = 0
    /\ counts = NoCounts
    /\ pc = "idle"
    /\ request = NoRequest
    /\ providers = <<>>
    /\ default_models = {}

\* the /process endpoint has not been requested
NoPipeline ==
    /\ flags = [remove_background |-> TRUE, upscale |-> TRUE]
    /\ bg_result = [results |-> <<>>, counts |-> NoCounts]
    /\ pipeline = <<>>
    /\ summary = NoSummary
    /\ pipe_pc = "idle"

\* add_result counting as failed only the FAILED outcomes: the sensitivity
\* case of C5
\* an add_result that leaves total_cost alone: the sensitivity case of C38
add_result_uncharged(res, cnt, r) ==
    [results |-> Append(res, r),
     counts |-> [total_cost |-> cnt.total_cost,
                 successful_count |-> cnt.successful_count + (IF is_success(r) THEN 1 ELSE 0),
                 failed_count |-> cnt.failed_count + (IF is_success(r) THEN 0 ELSE 1)]]

add_result_failed_only(res, cnt, r) ==
    [results |-> Append(res, r),
     counts |-> [total_cost |-> cnt.total_cost + r.cost,
                 successful_count |-> cnt.successful_count + (IF is_success(r) THEN 1 ELSE 0),
                 failed_count |-> cnt.failed_count + (IF r.status = "failed" THEN 1 ELSE 0)]]

\* ShotgunResult.add_result, on the container (res, cnt)
add_result(res, cnt, r) ==
    [results |-> Append(res, r),
     counts |-> [total_cost |-> cnt.total_cost + r.cost,
                 successful_count |-> cnt.successful_count + (IF is_success(r) THEN 1 ELSE 0),
                 failed_count |-> cnt.failed_count + (IF is_success(r) THEN 0 ELSE 1)]]

\* isinstance(result, ProviderResult)
IsProviderResult(r) == r.status \in ProviderStatus

RECURSIVE AddAll(_, _, _)
\* execute: `for result in results`, adding every ProviderResult
AddAll(res, cnt, rs) ==
    IF rs = <<>> THEN [results |-> res, counts |-> cnt]
    ELSE LET c == IF IsProviderResult(Head(rs)) THEN add_result(res, cnt, Head(rs))
                  ELSE [results |-> res, counts |-> cnt]
         IN  AddAll(c.results, c.counts, Tail(rs))

-----------------------------------------------------------------------------
(* service: the providers' remove_background and _run_single_model *)

Unavailable(msg) == [kind |-> "unavailable", msg |-> msg]
ErrorResult(msg) == [kind |-> "error_result", msg |-> msg]

\* RunwareProvider / KieProvider / LocalProvider .remove_background: the
\* ProviderResult it returns for how its work ended
provider_remove_background(model_name, ev) ==
    CASE ev.kind = "return" ->
            ProviderResult(model_name, MODELS[model_name].provider, "success", TRUE,
                           NoError, MODELS[model_name].cost)
      [] ev.kind = "unavailable" -> _create_error_result(model_name, ev.msg, "unavailable")
      [] ev.kind = "TimeoutError" -> _create_error_result(model_name, "timeout after", "timeout")
      [] OTHER -> _create_error_result(model_name, ev.msg, "failed")

\* ShotgunService._run_single_model: the provider's result, or a FAILED one for
\* an exception that escaped the provider
_run_single_model(model_name, ev) ==
    LET result == provider_remove_background(model_name, ev) IN
    IF IsProviderResult(result) THEN result
    ELSE ProviderResult(model_name, "unknown", "failed", FALSE, ev.msg, 0)

SvcActive == sys = "service" /\ pc = "waiting"

\* what a step of one service unit leaves alone
svcFrame == <<others, sys, clock, runware_key, kie_key, runware_client, available, collected,
              total_time, pc, parallel>>

SvcGoto(i, ph, dl) ==
    /\ tasks' = [tasks EXCEPT ![i] = [@ EXCEPT !.ph = ph, !.dl = dl]]
    /\ UNCHANGED <<finished, results, counts>>

\* the unit ends; run sequentially, execute adds its result at once
SvcFinish(i, ev) ==
    LET r == _run_single_model(tasks[i].model, ev) IN
    /\ tasks' = [tasks EXCEPT ![i] = [model |-> tasks[i].model, ph |-> "done",
                                      dl |-> NoTimer, ev |-> ev, res |-> r]]
    /\ finished' = Append(finished, i)
    /\ IF parallel
       THEN UNCHANGED <<results, counts>>
       ELSE LET c == add_result(results, counts, r)
            IN  results' = c.results /\ counts' = c.counts

\* asyncio.wait_for(..., timeout=self.timeout) of a provider, armed now
SvcWaitFor == clock + ProviderTimeout

-----------------------------------------------------------------------------
(* service: ShotgunService.execute *)

RECURSIVE ActiveProviders(_, _)
\* the keys of active_providers: the registry's names that are in `models`
ActiveProviders(registry, models) ==
    IF registry = <<>> THEN <<>>
    ELSE (IF Head(registry) \in models THEN <<Head(registry)>> ELSE <<>>)
         \o ActiveProviders(Tail(registry), models)

\* the registries initialize() can build: the enabled models in configuration order
Registries ==
    {r \in SeqsUpTo(ConfigModels, MaxUnits) : \A a, b \in DOMAIN r : a # b => r[a] # r[b]}

\* execute up to its first await; `registry` is what initialize() built,
\* `defaults` the configured default_models, `is_none` says that models is None
execute(registry, defaults, is_none, models) ==
    /\ sys = "service" /\ pc = "idle"
    /\ LET active == ActiveProviders(registry, IF is_none THEN defaults ELSE models)
       IN /\ available' = active
          /\ tasks' = [i \in 1..Len(active) |-> Task(active[i])]
          /\ pc' = IF active = <<>> THEN "returned" ELSE "waiting"
          /\ total_time' = IF active = <<>> THEN clock ELSE total_time
    /\ UNCHANGED <<others, sys, clock, runware_key, kie_key, runware_client, executor, finished,
                   collected, results, parallel, counts>>

\* unit i may begin: gather starts the coroutines in order; the sequential loop
\* starts one when the one before has returned
SvcStartable(i) ==
    /\ SvcActive
    /\ tasks[i].ph = "new"
    /\ \A j \in Units : j < i => (IF parallel THEN tasks[j].ph # "new"
                                  ELSE tasks[j].ph = "done")

\* the provider's remove_background runs up to its first await
SvcStartTask(i) ==
    /\ SvcStartable(i)
    /\ CASE Provider(i) = "runware" ->
              IF ~runware_key
              THEN /\ SvcFinish(i, Unavailable("Runware API key not configured"))
                   /\ UNCHANGED executor
              ELSE /\ SvcGoto(i, "connect", NoTimer)
                   /\ UNCHANGED executor
         [] Provider(i) = "kie" ->
              IF ~kie_key
              THEN /\ SvcFinish(i, Unavailable("Kie.ai API key not configured"))
                   /\ UNCHANGED executor
              ELSE /\ SvcGoto(i, "upload", NoTimer)
                   /\ UNCHANGED executor
         [] Provider(i) = "local" ->
              /\ SvcGoto(i, "executor", SvcWaitFor)
              /\ executor' = Submit(executor, i)
    /\ UNCHANGED svcFrame

\* RunwareProvider._get_client: connect() returns
SvcConnected(i) ==
    /\ SvcActive /\ tasks[i].ph = "connect"
    /\ SvcGoto(i, "request", SvcWaitFor)
    /\ UNCHANGED <<svcFrame, executor>>

\* RunwareProvider.remove_background: imageBackgroundRemoval answers
SvcRunwareAnswer(i, answer) ==
    /\ SvcActive /\ tasks[i].ph = "request"
    /\ CASE answer = "imageURL" -> SvcGoto(i, "fetch", NoTimer)
         [] answer = "imageBase64" -> SvcFinish(i, Returned)
         [] answer = "empty" -> SvcFinish(i, ErrorResult("No results returned from Runware"))
         [] answer = "no_image" -> SvcFinish(i, ErrorResult("No image in Runware response"))
    /\ UNCHANGED <<svcFrame, executor>>

\* RunwareProvider.remove_background: the image is fetched from imageURL
SvcFetched(i) ==
    /\ SvcActive /\ tasks[i].ph = "fetch"
    /\ SvcFinish(i, Returned)
    /\ UNCHANGED <<svcFrame, executor>>

\* KieProvider.remove_background: _upload_to_cdn, _submit_task, and _poll_task
\* (alone under wait_for) hand over to the next step
SvcKieStep(i) ==
    /\ SvcActive /\ tasks[i].ph \in {"upload", "create", "poll"}
    /\ SvcGoto(i, KieNext(tasks[i].ph),
               IF tasks[i].ph = "create" THEN SvcWaitFor ELSE NoTimer)
    /\ UNCHANGED <<svcFrame, executor>>

\* KieProvider._download_result returns the image
SvcKieDownloaded(i) ==
    /\ SvcActive /\ tasks[i].ph = "download"
    /\ SvcFinish(i, Returned)
    /\ UNCHANGED <<svcFrame, executor>>

\* an awaited call of a runware or kie provider raises e
SvcBackendRaises(i, e) ==
    /\ SvcActive
    /\ tasks[i].ph \in {"connect", "request", "fetch", "upload", "create", "poll", "download"}
    /\ SvcFinish(i, Raised(e))
    /\ UNCHANGED <<svcFrame, executor>>

\* a provider's wait_for expires
SvcWaitForTimeout(i) ==
    /\ SvcActive
    /\ TimerDue(i)
    /\ SvcFinish(i, RaisedTimeout)
    /\ executor' = CancelJobs(executor, {i})
    /\ UNCHANGED svcFrame

\* LocalProvider: the thread running _remove_background_sync ends
SvcThreadEnds(i, ev) ==
    /\ sys = "service"
    /\ i \in executor.running
    /\ executor' = Ended(executor, i)
    /\ IF SvcActive /\ tasks[i].ph = "executor"
       THEN SvcFinish(i, ev)
       ELSE UNCHANGED <<tasks, finished, results, counts>>
    /\ UNCHANGED svcFrame

\* shotgun_result.successful_count < min_successful
BelowMinimum(cnt) == cnt.successful_count < MinSuccessful

\* a threshold that fails the call: the sensitivity case of C25
AfterThreshold_enforced(cnt) == IF BelowMinimum(cnt) THEN "raised" ELSE "returned"

\* the end of execute: below the threshold a warning is logged; either way
\* `return shotgun_result`
AfterThreshold(cnt) == IF BelowMinimum(cnt) THEN "returned" ELSE "returned"

\* wait_for(gather(...), total_timeout) has expired
TotalExpired == clock >= TotalTimeout

\* parallel: gather returns every unit's result in the order of the tasks
GatherReturns ==
    /\ SvcActive /\ parallel
    /\ \A i \in Units : tasks[i].ph = "done"
    /\ LET c == AddAll(results, counts, [i \in Units |-> tasks[i].res])
       IN  results' = c.results /\ counts' = c.counts /\ pc' = AfterThreshold(c.counts)
    /\ collected' = [i \in Units |-> i]
    /\ total_time' = clock
    /\ UNCHANGED <<others, sys, clock, runware_key, kie_key, runware_client, available, tasks,
                   executor, finished, parallel>>

\* parallel: total_timeout expires first; wait_for cancels gather and its
\* units and raises TimeoutError, which execute only logs
GatherTimeout ==
    /\ SvcActive /\ parallel
    /\ TotalExpired
    /\ \A i \in Units : tasks[i].ph # "new"
    /\ \E i \in Units : Running(i)
    /\ tasks' = [i \in Units |->
                   IF Running(i) THEN [tasks[i] EXCEPT !.ph = "cancelled", !.dl = NoTimer]
                   ELSE tasks[i]]
    /\ executor' = CancelJobs(executor, {i \in Units : Running(i)})
    /\ pc' = AfterThreshold(counts)
    /\ total_time' = clock
    /\ UNCHANGED <<others, sys, clock, runware_key, kie_key, runware_client, available, finished,
                   collected, results, parallel, counts>>

\* sequential: the loop is over
SequentialReturns ==
    /\ SvcActive /\ ~parallel
    /\ \A i \in Units : tasks[i].ph = "done"
    /\ collected' = [i \in Units |-> i]
    /\ pc' = AfterThreshold(counts)
    /\ total_time' = clock
    /\ UNCHANGED <<others, sys, clock, runware_key, kie_key, runware_client, available, tasks,
                   executor, finished, results, parallel, counts>>

\* time may pass for the service: execute is suspended, nothing is ready to run
\* and no timer is due (the clock is not followed after execute returned)
SvcTimePasses ==
    /\ sys = "service"
    /\ pc = "waiting"
    /\ \A i \in Units : ~SvcStartable(i) /\ ~TimerDue(i)
    /\ \E i \in Units : Running(i) /\ tasks[i].ph # "new"
    /\ parallel => ~TotalExpired

-----------------------------------------------------------------------------
(* the clock *)

Tick ==
    /\ clock < MaxTicks * BatchSlack
    /\ CoreTimePasses \/ SvcTimePasses
    /\ clock' = clock + BatchSlack
    /\ UNCHANGED <<others, sys, callVars>>

-----------------------------------------------------------------------------

Init ==
    /\ sys \in {"core", "service"}
    /\ clock = 0
    /\ runware_key \in BOOLEAN
    /\ kie_key \in BOOLEAN
    /\ parallel \in (IF sys = "service" THEN BOOLEAN ELSE {TRUE})
    /\ runware_client = "none"
    /\ available = <<>>
    /\ tasks = <<>>
    /\ executor = [queue |-> <<>>, running |-> {}, late |-> {}]
    /\ finished = <<>>
    /\ collected = <<>>
    /\ results = <<>>
    /\ total_time = 0
    /\ counts = NoCounts
    /\ pc = "idle"
    /\ request = NoRequest
    /\ providers = <<>>
    /\ default_models = {}
    /\ NoCalls
    /\ NoPipeline
    /\ NoSelection
    /\ NoTransform
    /\ NoKie

ThreadResults == {Returned} \cup {Raised(e) : e \in Errors}

RunwareAnswers == {"imageURL", "imageBase64", "empty", "no_image"}

Next ==
    \/ \E models \in Requests \cup {DEFAULT_SHOTGUN_MODELS} :
          remove_background(models)
    \/ \E model_id \in RequestIds : remove_background_single(model_id)
    \/ SingleReturns
    \/ \E i \in Units : StartTask(i)
    \/ \E i \in Units : RunwareConnected(i)
    \/ \E i \in Units : \E a \in RunwareAnswers : RunwareAnswer(i, a)
    \/ \E i \in Units : RunwareFetched(i)
    \/ \E i \in Units : KieStep(i)
    \/ \E i \in Units : KieDownloaded(i)
    \/ \E i \in Units : \E b \in BOOLEAN : KiePollsExhausted(i, b)
    \/ \E i \in Units : \E e \in Errors : BackendRaises(i, e)
    \/ \E i \in Units : WaitForTimeout(i)
    \/ \E i \in Units : \E ev \in ThreadResults : ThreadEnds(i, ev)
    \/ \E o \in Orders({i \in Units : tasks[i].ph = "done"}) : WaitReturns(o)
    \/ \E registry \in Registries : \E defaults \in SUBSET Range(registry) :
          \E is_none \in BOOLEAN : \E models \in SUBSET (ConfigModels \cup {"no_such_model"}) :
             execute(registry, defaults, is_none, models)
    \/ \E i \in Units : SvcStartTask(i)
    \/ \E i \in Units : SvcConnected(i)
    \/ \E i \in Units : \E a \in RunwareAnswers : SvcRunwareAnswer(i, a)
    \/ \E i \in Units : SvcFetched(i)
    \/ \E i \in Units : SvcKieStep(i)
    \/ \E i \in Units : SvcKieDownloaded(i)
    \/ \E i \in Units : \E e \in Errors : SvcBackendRaises(i, e)
    \/ \E i \in Units : SvcWaitForTimeout(i)
    \/ \E i \in Units : \E ev \in ThreadResults : SvcThreadEnds(i, ev)
    \/ GatherReturns
    \/ GatherTimeout
    \/ SequentialReturns
    \/ Tick

Spec == Init /\ [][Next]_vars

\* The event loop runs what is ready: a created task starts, a due timer fires,
\* asyncio.wait returns when it can, and time passes.  No backend is obliged to
\* answer.
LiveSpec ==
    /\ Spec
    /\ WF_vars(Tick)
    /\ WF_vars(\E i \in Units : StartTask(i))
    /\ WF_vars(\E i \in Units : WaitForTimeout(i))
    /\ WF_vars(\E o \in Orders({i \in Units : tasks[i].ph = "done"}) : WaitReturns(o))

-----------------------------------------------------------------------------
(* Claims *)

\* position of unit i in the completion order (0: it never completed)
Rank(i) == IF \E k \in DOMAIN finished : finished[k] = i
           THEN CHOOSE k \in DOMAIN finished : finished[k] = i
           ELSE 0

Done(i) == tasks[i].ph = "done"
Cancelled(i) == tasks[i].ph = "cancelled"
Recorded(i) == \E k \in DOMAIN collected : collected[k] = i /\ results[k] = tasks[i].res
CountStatus(rs, st) == Cardinality({k \in DOMAIN rs : rs[k].status = st})
BatchDeadline == DefaultTimeout + BatchSlack

\* C1: when Masq.remove_background has returned, results holds exactly one
\* outcome for every dispatched unit, also for the units that were still
\* running at the batch deadline: len(results) = number of units dispatched.
C1_OneOutcomePerUnit ==
    (sys = "core" /\ pc = "returned") =>
        /\ Len(results) = Len(available)
        /\ \A i \in Units : Cardinality({k \in DOMAIN collected : collected[k] = i}) = 1

\* C2: when the batch deadline of Masq.remove_background elapses with N units
\* not terminal, the result holds exactly N outcomes with status Cancelled, and
\* no unit that was terminal before the deadline is recorded as Cancelled.
C2_PendingRecordedCancelled ==
    (sys = "core" /\ pc = "returned") =>
        /\ CountStatus(results, "cancelled") = Cardinality({i \in Units : Cancelled(i)})
        /\ \A i \in Units : Done(i) => tasks[i].res.status # "cancelled"

\* C3: when ShotgunService.execute (parallel) returns, also after total_timeout
\* elapsed, the outcome of every provider that had completed is in the result.
C3_CompletedOutcomesKept ==
    (sys = "service" /\ parallel /\ pc = "returned") =>
        \A i \in Units : Done(i) => \E k \in DOMAIN results : results[k] = tasks[i].res

\* C4: a unit whose backend raised an error ended with a Failed outcome that
\* retains the error message, a unit whose wait_for expired ended with a Timeout
\* outcome, no unit ended with an exception escaping to the dispatcher, and the
\* outcomes of all units are in the result of a round in which every unit ended.
C4_ErrorsCaughtAtUnit ==
    /\ pc \in {"idle", "waiting", "single", "returned", "returned_single"}
    /\ \A i \in Units : Done(i) =>
          /\ tasks[i].res.status \in ModelStatus
          /\ tasks[i].ev.kind = "Exception" =>
                tasks[i].res.status = "failed" /\ tasks[i].res.error = tasks[i].ev.msg
          /\ tasks[i].ev.kind = "TimeoutError" => tasks[i].res.status = "timeout"
          /\ tasks[i].ev.kind = "return" => tasks[i].res.status = "success"
    /\ (pc = "returned" /\ \A i \in Units : Done(i)) =>
          /\ Len(results) = Len(tasks)
          /\ \A i \in Units : Recorded(i)

C4_Witness ==
    /\ sys = "core" /\ pc = "returned"
    /\ \E i, j \in Units :
          /\ tasks[i].ev.kind = "Exception" /\ tasks[i].res.status = "failed"
          /\ tasks[j].ev.kind = "TimeoutError" /\ tasks[j].res.status = "timeout"
          /\ Recorded(i) /\ Recorded(j)

\* C5: successful count + failed count = number of outcomes, failed counting
\* every outcome whose status is not Success: for the counters add_result keeps
\* in the service and for the counts the core's to_dict derives.
C5_CountsAddUp ==
    LET s == IF sys = "service" THEN counts.successful_count
             ELSE to_dict(results).successful_count
        f == IF sys = "service" THEN counts.failed_count
             ELSE to_dict(results).failed_count
    IN  /\ s + f = Len(results)
        /\ f = Cardinality({k \in DOMAIN results : results[k].status # "success"})

C5_Witness ==
    /\ sys = "service" /\ pc = "returned"
    /\ counts.successful_count = 1
    /\ counts.failed_count = 1
    /\ \E k \in DOMAIN results : results[k].status \in {"timeout", "unavailable"}

\* C6: every outcome whose status is not Success has cost 0, whichever path
\* created it.
C6_NonSuccessCostsNothing ==
    /\ \A i \in Units : (Done(i) /\ tasks[i].res.status # "success") => tasks[i].res.cost = 0
    /\ \A k \in DOMAIN results : results[k].status # "success" => results[k].cost = 0

C6_Witness ==
    /\ pc \in {"returned", "returned_single"}
    /\ \E i \in Units :
          /\ Recorded(i)
          /\ tasks[i].res.status \in {"failed", "timeout", "unavailable"}
          /\ MODELS[tasks[i].model].cost > 0

\* C7: the outcomes of a round (Masq.remove_background, and
\* ShotgunService.execute in parallel mode) are in completion order.
C7_CompletionOrder ==
    (pc = "returned" /\ parallel) =>
        \A a, b \in DOMAIN collected : a < b => Rank(collected[a]) < Rank(collected[b])

\* C8: Masq.remove_background never waits past the batch deadline
\* (timeout + 30 s); it returns before the deadline only with every unit
\* terminal, and at the deadline at the latest; and it always returns.
C8_Bound ==
    sys = "core" =>
        /\ pc = "waiting" => clock <= BatchDeadline
        /\ pc = "returned" =>
              /\ total_time <= BatchDeadline
              /\ total_time < BatchDeadline => \A i \in Units : Done(i)

\* C8 (the whole claim): the bound above holds at all times, and a call
\* suspended in asyncio.wait eventually returns.
C8_ReturnsByDeadline ==
    /\ []C8_Bound
    /\ (sys = "core" /\ pc = "waiting") ~> (pc = "returned")

C8_Witness ==
    /\ sys = "core" /\ pc = "returned"
    /\ total_time = BatchDeadline
    /\ \E i, j \in Units : Cancelled(i) /\ Done(j)

\* C9: ShotgunService.execute returns no later than total_timeout after it
\* started, with shotgun.parallel true or false.
C9_BoundedByTotalTimeout ==
    sys = "service" =>
        /\ pc = "waiting" => clock <= TotalTimeout
        /\ pc = "returned" => total_time <= TotalTimeout

\* C10: in Masq.remove_background no unit, whatever its backend, is still
\* running once the per-call timeout has elapsed since its start (every unit
\* starts when the call starts).
C10_UnitsBoundedByTimeout ==
    (sys = "core" /\ pc = "waiting" /\ clock > DefaultTimeout) =>
        \A i \in Units : ~Running(i)

\* C11: once Masq.remove_background has returned, no step changes the returned
\* result or the tasks of the call: a cancelled unit and a worker thread that
\* runs on add, replace or change no outcome, and a late thread result is dropped.
C11_ResultFrozenAfterReturn ==
    [][(sys = "core" /\ pc = "returned") =>
          /\ results' = results
          /\ collected' = collected
          /\ total_time' = total_time
          /\ tasks' = tasks
          /\ pc' = pc]_vars

C11_Witness ==
    /\ sys = "core" /\ pc = "returned"
    /\ \E i \in Units : Cancelled(i)
    /\ \E j \in Units :
          /\ j \in executor.late
          /\ tasks[j].res.status = "timeout"
          /\ \E k \in DOMAIN results : results[k] = tasks[j].res

\* the credential the backend of model m needs is configured
HasCredential(m) ==
    CASE MODELS[m].provider = "runware" -> runware_key
      [] MODELS[m].provider = "kie" -> kie_key
      [] OTHER -> TRUE

\* C12: in ShotgunService, a provider whose API key is missing is never
\* dispatched by execute and no outcome for it, of any status, is in
\* ShotgunResult.results or counted in failed_count.
C12_NoKeyNeverDispatched ==
    sys = "service" =>
        /\ \A i \in Units : HasCredential(tasks[i].model)
        /\ \A k \in DOMAIN results : HasCredential(results[k].model_name)
        /\ counts.failed_count =
             Cardinality({k \in DOMAIN results :
                 HasCredential(results[k].model_name) /\ results[k].status # "success"})

-----------------------------------------------------------------------------
(* The resolution of a request, taken alone: which units a call dispatches  *)
(* for a `models` argument, the keys and (service) the configuration.       *)

\* the ids a request may name: the catalogue and one unknown id
AllIds == DOMAIN MODELS \cup {"no_such_model"}

\* the `models` arguments: None, or a list of up to MaxUnits ids in any order
Arguments ==
    {NoRequest} \cup
    {[is_none |-> FALSE, ids |-> s] :
        s \in SeqsUpTo(IF sys = "core" THEN AllIds ELSE ConfigModels \cup {"no_such_model"},
                       MaxUnits)}

DispatchInit ==
    /\ sys \in {"core", "service"}
    /\ request \in Arguments
    /\ runware_key \in BOOLEAN
    /\ kie_key \in BOOLEAN
    /\ providers \in (IF sys = "service" THEN Registries ELSE {<<>>})
    /\ default_models \in (IF sys = "service" THEN SUBSET ConfigModels ELSE {{}})
    /\ NoCalls
    /\ NoPipeline
    /\ NoSelection
    /\ NoTransform
    /\ NoKie
    /\ clock = 0
    /\ parallel = TRUE
    /\ runware_client = "none"
    /\ available = <<>>
    /\ tasks = <<>>
    /\ executor = [queue |-> <<>>, running |-> {}, late |-> {}]
    /\ finished = <<>>
    /\ collected = <<>>
    /\ results = <<>>
    /\ total_time = 0
    /\ counts = NoCounts
    /\ pc = "idle"

\* Masq.remove_background: `if models is None`, then _get_available_models
Resolve ==
    /\ sys = "core" /\ pc = "idle"
    /\ available' = _get_available_models(
                        IF request.is_none THEN DEFAULT_SHOTGUN_MODELS ELSE request.ids,
                        runware_key, kie_key)
    /\ pc' = "resolved"
    /\ UNCHANGED <<others, sys, clock, runware_key, kie_key, runware_client, tasks,
                   executor, finished, collected, results, total_time, parallel, counts>>

\* ShotgunService.execute: `if models is None`, then active_providers
SvcResolve ==
    /\ sys = "service" /\ pc = "idle"
    /\ available' = ActiveProviders(providers,
                        IF request.is_none THEN default_models ELSE Range(request.ids))
    /\ pc' = "resolved"
    /\ UNCHANGED <<others, sys, clock, runware_key, kie_key, runware_client, tasks,
                   executor, finished, collected, results, total_time, parallel, counts>>

DispatchNext ==
    \/ Resolve
    \/ SvcResolve

DispatchSpec == DispatchInit /\ [][DispatchNext]_vars

\* C13: Masq._get_available_models(requested) is the requested list with the
\* unknown ids and the ids whose backend lacks its key removed, the others kept
\* in request order and as often as requested; nothing raises, nothing is added.
C13_FilterKeepsKnownWithKey ==
    (sys = "core" /\ pc = "resolved" /\ ~request.is_none) =>
        available = SelectSeq(request.ids,
                              LAMBDA id : id \in DOMAIN MODELS /\ HasCredential(id))

C13_Witness ==
    /\ sys = "core" /\ pc = "resolved" /\ ~request.is_none
    /\ Len(request.ids) = MaxUnits
    /\ Len(available) = MaxUnits - 1
    /\ \E k \in DOMAIN request.ids :
          request.ids[k] \in DOMAIN MODELS /\ ~HasCredential(request.ids[k])

\* C14: a call with an empty list of model ids dispatches what a call with no
\* list dispatches: the default set filtered by availability.
C14_EmptyListMeansDefault ==
    (pc = "resolved" /\ ~request.is_none /\ request.ids = <<>>) =>
        available = (IF sys = "core"
                     THEN _get_available_models(DEFAULT_SHOTGUN_MODELS, runware_key, kie_key)
                     ELSE ActiveProviders(providers, default_models))

\* C15: when none of the requested providers is dispatchable (each is unknown
\* to the engine or lacks its credential), the call returns a result with no
\* outcome and zero successful and failed counts, and has started no unit.
C15_NothingDispatchable ==
    (pc = "returned" /\ \A k \in DOMAIN available : ~HasCredential(available[k])) =>
        /\ tasks = <<>>
        /\ results = <<>>
        /\ IF sys = "service"
           THEN counts.successful_count = 0 /\ counts.failed_count = 0
           ELSE to_dict(results).successful_count = 0 /\ to_dict(results).failed_count = 0

\* C16: no two outcomes of one result of Masq.remove_background carry the same
\* model id, whatever the request list, also one that repeats an id.
C16_NoDuplicateOutcome ==
    (sys = "core" /\ pc = "returned") =>
        \A a, b \in DOMAIN results : a # b => results[a].model_id # results[b].model_id

-----------------------------------------------------------------------------
(* Concurrent invocations on one instance.  Several calls of                 *)
(* Masq.remove_background (core) or ShotgunService.execute (service, in      *)
(* parallel mode) are in flight on the same event loop.  Each has its own    *)
(* locals (its tasks and its ShotgunResult); they share the instance's       *)
(* session cache and the module's executor.  Time is not followed: a         *)
(* wait_for may expire whenever its unit is still awaited.                   *)

\* what a step of the concurrent calls leaves alone
concFrame == <<sys, clock, callVars, dispatchVars, pipeVars, selVars, upVars, kieVars>>

\* a unit of a call: the task (ph) and, for a local model, its job's worker
\* thread (th)
Unit(model_id) == [model |-> model_id, ph |-> "new", th |-> "none", res |-> NoResult]

\* the jobs are named by call and position
Jobs == {j \in Calls \X (1..MaxUnits) : j[2] \in DOMAIN calls[j[1]].units}

UnitOf(j) == calls[j[1]].units[j[2]]

IsLocal(j) == MODELS[UnitOf(j).model].provider = "local"

RECURSIVE Dispatched(_)
\* units created so far by the calls in S
Dispatched(S) ==
    IF S = {} THEN 0
    ELSE LET c == CHOOSE x \in S : TRUE IN Len(calls[c].units) + Dispatched(S \ {c})

\* the image_bytes argument of call c
Payload(c) == c

\* a ShotgunResult kept on the instance, one for all calls: the sensitivity
\* case of C19
SharedCollector(c) == 1

\* `result = ShotgunResult()`: a local of the invocation
Collector(c) == c

\* the outcome the unit's coroutine builds from its own arguments
Outcome(j, ev) ==
    LET r == IF sys = "core" THEN _run_model(UnitOf(j).model, ev)
             ELSE _run_single_model(UnitOf(j).model, ev)
    IN  [by |-> j, image_of |-> IF is_success(r) THEN Payload(j[1]) ELSE 0] @@ r

SetUnit(j, ph, th, res) ==
    calls' = [calls EXCEPT ![j[1]].units[j[2]] =
                 [model |-> @.model, ph |-> ph, th |-> th, res |-> res]]

\* remove_background / execute of call c, up to its first await.  A call that
\* dispatches nothing returns before it ever suspends and is never in flight
\* with another: Spec follows it.
Invoke(c, models) ==
    /\ calls[c].pc = "idle"
    /\ \A b \in Calls : b < c => calls[b].pc # "idle"
    /\ LET avail == IF sys = "core"
                    THEN _get_available_models(models, runware_key, kie_key)
                    ELSE ActiveProviders(providers, Range(models))
       IN /\ Len(avail) <= MaxUnits
          /\ Dispatched(Calls) + Len(avail) <= MaxJobs
          /\ avail # <<>>
          /\ calls' = [calls EXCEPT ![c] =
                         [pc |-> "waiting",
                          units |-> [i \in 1..Len(avail) |-> Unit(avail[i])],
                          results |-> <<>>, counts |-> NoCounts]]
    /\ UNCHANGED <<concFrame, pool, local_sessions, loads>>

\* a new task runs up to its first await: a local unit submits its job, a
\* service provider without key answers UNAVAILABLE, any other awaits its backend
UnitStarts(j) ==
    /\ calls[j[1]].pc = "waiting"
    /\ UnitOf(j).ph = "new"
    /\ \A i \in 1..(j[2] - 1) : calls[j[1]].units[i].ph # "new"
    /\ CASE IsLocal(j) ->
              /\ SetUnit(j, "executor", "check", NoResult)
              /\ pool' = Submit(pool, j)
         [] ~IsLocal(j) /\ sys = "service"
              /\ ~ModelAvailable(UnitOf(j).model, runware_key, kie_key) ->
              /\ SetUnit(j, "done", "none", Outcome(j, Unavailable("API key not configured")))
              /\ UNCHANGED pool
         [] OTHER ->
              /\ SetUnit(j, "backend", "none", NoResult)
              /\ UNCHANGED pool
    /\ UNCHANGED <<concFrame, local_sessions, loads>>

\* the remote backend of a unit answers, raises, or its wait_for expires
UnitBackendEnds(j, ev) ==
    /\ calls[j[1]].pc = "waiting"
    /\ UnitOf(j).ph = "backend"
    /\ SetUnit(j, "done", "none", Outcome(j, ev))
    /\ UNCHANGED <<concFrame, pool, local_sessions, loads>>

\* wait_for(run_in_executor(...)) expires: the future is cancelled, a job still
\* queued never runs, a running thread goes on
UnitTimesOut(j) ==
    /\ calls[j[1]].pc = "waiting"
    /\ UnitOf(j).ph = "executor"
    /\ SetUnit(j, "done", IF j \in pool.running THEN UnitOf(j).th ELSE "ended",
               Outcome(j, RaisedTimeout))
    /\ pool' = CancelJobs(pool, {j})
    /\ UNCHANGED <<concFrame, local_sessions, loads>>

\* the worker thread tests the cache: `if model_id not in self._local_sessions`
\* / `if self._session is None`; on a miss it calls new_session
WorkerChecksSession(j) ==
    /\ j \in pool.running
    /\ UnitOf(j).th = "check"
    /\ LET key == UnitOf(j).model IN
       IF key \in local_sessions
       THEN /\ SetUnit(j, UnitOf(j).ph, "infer", UnitOf(j).res)
            /\ UNCHANGED loads
       ELSE /\ SetUnit(j, UnitOf(j).ph, "load", UnitOf(j).res)
            /\ loads' = [loads EXCEPT ![key] = @ + 1]
    /\ UNCHANGED <<concFrame, pool, local_sessions>>

\* new_session returns and the thread stores the session
WorkerLoadsSession(j) ==
    /\ j \in pool.running
    /\ UnitOf(j).th = "load"
    /\ local_sessions' = local_sessions \cup {UnitOf(j).model}
    /\ SetUnit(j, UnitOf(j).ph, "infer", UnitOf(j).res)
    /\ UNCHANGED <<concFrame, pool, loads>>

\* the thread ends: remove() returned or raised, or new_session raised.  Its
\* result reaches the unit only while the unit still awaits it.
WorkerEnds(j, ev) ==
    /\ j \in pool.running
    /\ \/ UnitOf(j).th = "infer"
       \/ UnitOf(j).th = "load" /\ ev.kind = "Exception"
    /\ pool' = Release(pool, j)
    /\ IF UnitOf(j).ph = "executor" /\ calls[j[1]].pc = "waiting"
       THEN SetUnit(j, "done", "ended", Outcome(j, ev))
       ELSE SetUnit(j, UnitOf(j).ph, "ended", UnitOf(j).res)
    /\ UNCHANGED <<concFrame, local_sessions, loads>>

Pending(c) == {i \in DOMAIN calls[c].units : calls[c].units[i].ph # "done"}

RECURSIVE Collect(_, _, _, _)
\* the outcomes of the units listed in `order` are added to a ShotgunResult
Collect(c, order, res, cnt) ==
    IF order = <<>> THEN [results |-> res, counts |-> cnt]
    ELSE LET a == add_result(res, cnt, calls[c].units[Head(order)].res)
         IN  Collect(c, Tail(order), a.results, a.counts)

\* the call resumes and returns.  core: asyncio.wait returned `done` (all
\* units, or at its timeout those that ended; the local ones have ended by
\* then), the pending tasks are cancelled and `done` is collected in set
\* order.  service: gather returned all results in task order, or its wait_for
\* expired and nothing is added.
ReturnOrders(c) ==
    LET units == calls[c].units IN
    IF sys = "core" THEN Orders({i \in DOMAIN units : units[i].ph = "done"})
    ELSE IF Pending(c) # {} THEN {<<>>}
    ELSE {[i \in 1..Len(units) |-> i]}

CallReturns(c, order) ==
    LET units == calls[c].units IN
    /\ calls[c].pc = "waiting"
    /\ \A i \in DOMAIN units : units[i].ph \notin {"new", "executor"}
    /\ LET got == Collect(c, order, calls[Collector(c)].results,
                          calls[Collector(c)].counts)
           cancelled == [i \in DOMAIN units |->
                           IF units[i].ph = "done" THEN units[i]
                           ELSE [units[i] EXCEPT !.ph = "cancelled"]]
           after == [calls EXCEPT ![c].pc = "returned", ![c].units = cancelled]
       IN calls' = [after EXCEPT ![Collector(c)].results = got.results,
                                 ![Collector(c)].counts =
                                     IF sys = "core" THEN @ ELSE got.counts]
    /\ UNCHANGED <<concFrame, pool, local_sessions, loads>>

\* The ids requested of concurrent calls: a remote model, a local one and an
\* unknown id.  A remote unit is followed only to its end, where the two remote
\* backends do not differ, so Runware stands for both.
ConcIds == {"runware_rmbg2", "local_birefnet", "no_such_model"}

ConcRequests == {s \in Requests : Range(s) \subseteq ConcIds}

\* in the core a missing key only removes units from a call, which a shorter
\* request does as well: its calls are followed with the key present

ConcInit ==
    /\ sys \in {"core", "service"}
    /\ clock = 0
    /\ runware_key \in (IF sys = "service" THEN BOOLEAN ELSE {TRUE})
    /\ kie_key = FALSE
    /\ parallel = TRUE
    /\ runware_client = "none"
    /\ available = <<>>
    /\ tasks = <<>>
    /\ executor = [queue |-> <<>>, running |-> {}, late |-> {}]
    /\ finished = <<>>
    /\ collected = <<>>
    /\ results = <<>>
    /\ total_time = 0
    /\ counts = NoCounts
    /\ pc = "idle"
    /\ request = NoRequest
    /\ providers \in (IF sys = "service"
                      THEN {r \in Registries : Range(r) \subseteq ConcIds}
                      ELSE {<<>>})
    /\ default_models = {}
    /\ NoCalls
    /\ NoPipeline
    /\ NoSelection
    /\ NoTransform
    /\ NoKie

UnitResults == ThreadResults \cup {RaisedTimeout}

ConcNext ==
    \/ \E c \in Calls : \E models \in ConcRequests : Invoke(c, models)
    \/ \E j \in Jobs : UnitStarts(j)
    \/ \E j \in Jobs : \E ev \in UnitResults : UnitBackendEnds(j, ev)
    \/ \E j \in Jobs : UnitTimesOut(j)
    \/ \E j \in Jobs : WorkerChecksSession(j)
    \/ \E j \in Jobs : WorkerLoadsSession(j)
    \/ \E j \in Jobs : \E ev \in ThreadResults : WorkerEnds(j, ev)
    \/ \E c \in Calls : \E order \in ReturnOrders(c) : CallReturns(c, order)

ConcSpec == ConcInit /\ [][ConcNext]_vars

\* C17: new_session is called at most once for each model id / provider
\* instance, whatever the interleaving of the worker threads.
C17_LoadOnce == \A m \in DOMAIN MODELS : loads[m] <= 1

\* a worker thread is inside new_session or remove()
Executing(j) == j \in pool.running /\ UnitOf(j).th \in {"check", "load", "infer"}

\* C18: at most MaxWorkers local units execute at once, however many calls and
\* units there are; a job waits in the queue only while every worker is busy,
\* and a waiting job's thread has not begun.
C18_AtMostTwoExecuting ==
    /\ Cardinality({j \in Jobs : Executing(j)}) <= MaxWorkers
    /\ Cardinality(pool.running) <= MaxWorkers
    /\ \A j \in Jobs : UnitOf(j).th \in {"load", "infer"} => j \in pool.running
    /\ pool.queue # <<>> => Cardinality(pool.running) = MaxWorkers
    /\ \A k \in DOMAIN pool.queue :
          /\ pool.queue[k] \notin pool.running
          /\ UnitOf(pool.queue[k]).th = "check"

\* a third local unit was submitted while both workers were busy and waits
C18_Witness ==
    /\ Cardinality({j \in Jobs : Executing(j)}) = MaxWorkers
    /\ pool.queue # <<>>
    /\ \E j \in Jobs : IsLocal(j) /\ UnitOf(j).ph = "executor" /\ j \notin pool.running

\* C19: concurrent invocations on one instance share no job state: what a call
\* returns holds only outcomes built by its own units from its own payload,
\* each unit at most once, and its counts are those of its own outcomes.
C19_NoSharedJobState ==
    \A c \in Calls :
        LET res == calls[c].results IN
        /\ \A k \in DOMAIN res :
              /\ res[k].by[1] = c
              /\ res[k].by[2] \in DOMAIN calls[c].units
              /\ res[k] = calls[c].units[res[k].by[2]].res
              /\ res[k].image_of \in {0, Payload(c)}
              /\ \A l \in DOMAIN res : res[l].by = res[k].by => l = k
        /\ calls[c].pc # "returned" => res = <<>>
        /\ sys = "service" =>
              calls[c].counts = [total_cost |-> SumCost(res),
                                 successful_count |-> Len(successful(res)),
                                 failed_count |-> Len(res) - Len(successful(res))]

\* a call returned its own outcomes while an earlier call on the same instance
\* was still in flight with an outcome of its own
C19_Witness ==
    /\ calls[1].pc = "waiting"
    /\ \E i \in DOMAIN calls[1].units : calls[1].units[i].ph = "done"
    /\ calls[2].pc = "returned"
    /\ \E k \in DOMAIN calls[2].results : is_success(calls[2].results[k])

-----------------------------------------------------------------------------
(* service: the /process endpoint, routers/upscale.py process_pipeline.      *)
(* Stage 1 is one ShotgunService.execute, taken here by what it returns;     *)
(* stage 2 upscales its successful results one after the other.              *)

\* what a step of the endpoint leaves alone
pipeFrame == <<sys, clock, callVars, dispatchVars, concVars, selVars, upVars, kieVars>>

\* image_base64 of a ProviderResult: None, the empty string, or image data
NoImage == "None"
Images == {"", "data"}

\* the ProviderResults a provider can return for model m.  Without its key a
\* remote provider answers UNAVAILABLE; with it, it encodes the body it
\* downloaded, which may be empty; the local one encodes the PNG it wrote.
ProviderOutcomes(m) ==
    LET ok == provider_remove_background(m, Returned)
        bodies == IF MODELS[m].provider = "local" THEN {"data"} ELSE Images
    IN  IF ~ModelAvailable(m, runware_key, kie_key)
        THEN {[image_base64 |-> NoImage]
                 @@ provider_remove_background(m, Unavailable("API key not configured"))}
        ELSE {[image_base64 |-> b] @@ ok : b \in bodies}
             \cup {[image_base64 |-> NoImage] @@ provider_remove_background(m, ev) :
                      ev \in {RaisedTimeout} \cup {Raised(e) : e \in Errors}}

RECURSIVE GatherResults(_)
\* one result for each provider in `active`, in task order
GatherResults(active) ==
    IF active = <<>> THEN {<<>>}
    ELSE {<<r>> \o rest : r \in ProviderOutcomes(Head(active)),
                          rest \in GatherResults(Tail(active))}

\* what execute can return for the providers in `active`: one result each, or
\* none when the gather timed out
ExecuteResults(active) == {<<>>} \cup GatherResults(active)

\* ShotgunResult.successful_results
successful_results(rs) == SelectSeq(rs, is_success)

\* UpscalerService.upscale_base64 always returns an UpscaleResult
UpscaleResults ==
    {[success |-> TRUE, error |-> NoError],
     [success |-> FALSE, error |-> "Upscaling timeout"],
     [success |-> FALSE, error |-> "Invalid base64 image"]}

NoUpscaled == [success |-> FALSE, error |-> "absent"]

\* `if upscale and r.image_base64`: None and the empty string are both false
Truthy(b) == b \notin {NoImage, ""}

\* process_pipeline with remove_background: stage 1 has run, its summary is set
PipeStage1(active, rs) ==
    /\ pipe_pc = "idle"
    /\ flags.remove_background
    /\ LET got == AddAll(<<>>, NoCounts, rs) IN
       /\ bg_result' = got
       /\ summary' = [summary EXCEPT !.background_removal =
                         [successful |-> got.counts.successful_count,
                          failed |-> got.counts.failed_count]]
    /\ pipe_pc' = "loop"
    /\ UNCHANGED <<pipeFrame, flags, pipeline>>

\* the pipeline_item of successful result r
PipelineItem(r, has_upscaled, up) ==
    [model |-> r.model_name, provider |-> r.provider, bg_removal |-> r,
     has_upscaled |-> has_upscaled, upscaled |-> up]

\* the k-th successful result is to be upscaled
Stage2Due(k) ==
    /\ k \in DOMAIN successful_results(bg_result.results)
    /\ flags.upscale
    /\ Truthy(successful_results(bg_result.results)[k].image_base64)

\* a turn of `for r in bg_result.successful_results` begins for the k-th
\* successful result: the loop is at k, and the item is either appended as it
\* is or the function awaits upscale_base64
PipeItem(k) ==
    LET todo == successful_results(bg_result.results) IN
    /\ pipe_pc = "loop"
    /\ k = Len(pipeline) + 1
    /\ k <= Len(todo)
    /\ IF Stage2Due(k)
       THEN /\ pipe_pc' = "upscale"
            /\ UNCHANGED pipeline
       ELSE /\ pipeline' = Append(pipeline, PipelineItem(todo[k], FALSE, NoUpscaled))
            /\ UNCHANGED pipe_pc
    /\ UNCHANGED <<pipeFrame, flags, bg_result, summary>>

\* await upscaler.upscale_base64(...) returns: the item is appended with its
\* "upscaled" entry and the loop goes on
PipeUpscaled(up) ==
    LET todo == successful_results(bg_result.results) IN
    /\ pipe_pc = "upscale"
    /\ pipeline' = Append(pipeline, PipelineItem(todo[Len(pipeline) + 1], TRUE, up))
    /\ pipe_pc' = "loop"
    /\ UNCHANGED <<pipeFrame, flags, bg_result, summary>>

\* the loop is over: the upscaling summary, and the response
PipeReturns ==
    /\ pipe_pc = "loop"
    /\ Len(pipeline) = Len(successful_results(bg_result.results))
    /\ summary' = IF flags.upscale
                  THEN [summary EXCEPT !.upscaling = [count |-> Len(pipeline)]]
                  ELSE summary
    /\ pipe_pc' = "returned"
    /\ UNCHANGED <<pipeFrame, flags, bg_result, pipeline>>

\* process_pipeline without remove_background: the original is upscaled, or
\* nothing is done
PipeOriginal(up) ==
    /\ pipe_pc = "idle"
    /\ ~flags.remove_background
    /\ IF flags.upscale
       THEN /\ up \in UpscaleResults
            /\ pipeline' = <<[model |-> "original", provider |-> "none",
                              bg_removal |-> NoResult, has_upscaled |-> TRUE,
                              upscaled |-> up]>>
            /\ summary' = [summary EXCEPT !.upscaling = [count |-> 1]]
       ELSE /\ up = NoUpscaled
            /\ UNCHANGED <<pipeline, summary>>
    /\ pipe_pc' = "returned"
    /\ UNCHANGED <<pipeFrame, flags, bg_result>>

PipeInit ==
    /\ sys = "service"
    /\ clock = 0
    /\ runware_key \in BOOLEAN
    /\ kie_key \in BOOLEAN
    /\ parallel = TRUE
    /\ runware_client = "none"
    /\ available = <<>>
    /\ tasks = <<>>
    /\ executor = [queue |-> <<>>, running |-> {}, late |-> {}]
    /\ finished = <<>>
    /\ collected = <<>>
    /\ results = <<>>
    /\ total_time = 0
    /\ counts = NoCounts
    /\ pc = "idle"
    /\ request = NoRequest
    /\ providers = <<>>
    /\ default_models = {}
    /\ NoCalls
    /\ flags \in [remove_background : BOOLEAN, upscale : BOOLEAN]
    /\ bg_result = [results |-> <<>>, counts |-> NoCounts]
    /\ pipeline = <<>>
    /\ summary = NoSummary
    /\ pipe_pc = "idle"
    /\ NoSelection
    /\ NoTransform
    /\ NoKie

PipeNext ==
    \/ \E active \in Registries : \E rs \in ExecuteResults(active) : PipeStage1(active, rs)
    \/ \E k \in 1..MaxUnits : PipeItem(k)
    \/ \E up \in UpscaleResults : PipeUpscaled(up)
    \/ PipeReturns
    \/ \E up \in UpscaleResults \cup {NoUpscaled} : PipeOriginal(up)

PipeSpec == PipeInit /\ [][PipeNext]_vars

\* C20: with remove_background and upscale both set, the K successful stage-1
\* outcomes give exactly K pipeline items, one per successful provider in
\* order, each with exactly one upscale outcome, and none for an outcome that
\* was not a success.
C20_OneUpscalePerSuccess ==
    (pipe_pc = "returned" /\ flags.remove_background /\ flags.upscale) =>
        LET ok == successful_results(bg_result.results) IN
        /\ Len(pipeline) = Len(ok)
        /\ Len(ok) = bg_result.counts.successful_count
        /\ \A k \in DOMAIN pipeline :
              /\ pipeline[k].bg_removal = ok[k]
              /\ pipeline[k].bg_removal.status = "success"
              /\ pipeline[k].has_upscaled
              /\ pipeline[k].upscaled \in UpscaleResults

\* C21: stage-2 rounds run concurrently: while the transform of one successful
\* stage-1 outcome is in flight, the transform of every other successful
\* outcome that is due and not yet begun can begin.
C21_Stage2Concurrent ==
    \A k \in 1..MaxUnits :
        (pipe_pc = "upscale" /\ k > Len(pipeline) + 1 /\ Stage2Due(k))
            => ENABLED PipeItem(k)

-----------------------------------------------------------------------------
(* The selection of a result.  core: bg_command shows the successful         *)
(* outcomes of a shotgun call in a ModelSelectView and logs the model the    *)
(* user picked (cogs/masq/cog.py).  service: the client reports its pick to  *)
(* POST /log-selection (routers/background.py).                              *)

\* what a step of the selection leaves alone
selFrame == <<sys, clock, callVars, dispatchVars, concVars, pipeVars, upVars, kieVars>>

\* the id the job is known by to the client
JobIds == {"job1", "None"}

\* the model id of an outcome
ModelId(r) == IF sys = "core" THEN r.model_id ELSE r.model_name

RECURSIVE JobOutcomes(_)
\* the outcomes a call can return for the units `ids`
JobOutcomes(ids) ==
    IF ids = <<>> THEN {<<>>}
    ELSE {<<r>> \o rest :
            r \in {IF sys = "core" THEN _run_model(Head(ids), ev)
                   ELSE _run_single_model(Head(ids), ev) : ev \in ThreadResults \cup {RaisedTimeout}},
            rest \in JobOutcomes(Tail(ids))}

\* ModelSelectView.__init__: one button for each successful result, carrying
\* its model id
ModelSelectView(rs) ==
    LET ok == SelectSeq(rs, is_success) IN
    [built |-> TRUE, buttons |-> [k \in DOMAIN ok |-> ok[k].model_id],
     selected_model |-> "None", disabled |-> FALSE, accepted |-> 0, refused |-> 0,
     pending |-> 0, stopped |-> FALSE, waited |-> FALSE]

\* bg_command, shotgun mode: with no successful outcome it reports the errors
\* and returns; else it sends the view built on result.successful
bg_command ==
    /\ sys = "core"
    /\ ~view.built
    /\ successful(job) # <<>>
    /\ view' = ModelSelectView(successful(job))
    /\ UNCHANGED <<selFrame, job, logged>>

\* a callback without the check of interaction.user.id: the sensitivity case
\* of C34
Press_anyone(v, model_id, owner) ==
    [v EXCEPT !.selected_model = model_id, !.disabled = TRUE,
              !.accepted = @ + 1, !.pending = @ + 1,
              !.refused = IF owner THEN @ ELSE @ + 1]

\* the callback of a button up to its first await: another user is sent
\* "This isn't your result set."; the owner's press sets selected_model and
\* disables every button
Press(v, model_id, owner) ==
    IF ~owner
    THEN [v EXCEPT !.refused = @ + 1]
    ELSE [v EXCEPT !.selected_model = model_id, !.disabled = TRUE,
                   !.accepted = @ + 1, !.pending = @ + 1]

\* the callback of button b runs up to its await of send_message or of
\* edit_message
callback(b, owner) ==
    /\ sys = "core"
    /\ view.built /\ ~view.stopped
    /\ b \in DOMAIN view.buttons
    /\ IF owner THEN view.accepted < MaxSelections ELSE view.refused < MaxSelections
    /\ view' = Press(view, view.buttons[b], owner)
    /\ UNCHANGED <<selFrame, job, logged>>

\* edit_message returned: the callback calls self.stop()
callback_stop ==
    /\ sys = "core"
    /\ view.pending > 0
    /\ view' = [view EXCEPT !.pending = @ - 1, !.stopped = TRUE]
    /\ UNCHANGED <<selFrame, job, logged>>

\* the view times out with no callback having stopped it
on_timeout ==
    /\ sys = "core"
    /\ view.built /\ ~view.stopped
    /\ view' = [view EXCEPT !.disabled = TRUE, !.stopped = TRUE]
    /\ UNCHANGED <<selFrame, job, logged>>

\* bg_command resumes from view.wait() and logs view.selected_model, if any
_log_selection ==
    /\ sys = "core"
    /\ view.stopped /\ ~view.waited
    /\ view' = [view EXCEPT !.waited = TRUE]
    /\ logged' = IF view.selected_model # "None"
                 THEN Append(logged, [model_id |-> view.selected_model,
                                      job_id |-> "job1", status |-> "logged"])
                 ELSE logged
    /\ UNCHANGED <<selFrame, job>>

\* POST /log-selection: the selection is logged and confirmed
log_selection(model_id, job_id) ==
    /\ sys = "service"
    /\ Len(logged) < MaxSelections
    /\ logged' = Append(logged, [model_id |-> model_id, job_id |-> job_id,
                                 status |-> "logged"])
    /\ UNCHANGED <<selFrame, job, view>>

SelectInit ==
    /\ sys \in {"core", "service"}
    /\ NoCall
    /\ NoCalls
    /\ NoPipeline
    /\ job \in UNION {JobOutcomes(ids) : ids \in SeqsUpTo(ConfigModels, MaxUnits)}
    /\ view = NoView
    /\ logged = <<>>
    /\ NoTransform
    /\ NoKie

SelectNext ==
    \/ bg_command
    \/ \E b \in 1..MaxUnits : \E owner \in BOOLEAN : callback(b, owner)
    \/ callback_stop
    \/ on_timeout
    \/ _log_selection
    \/ \E model_id \in ConfigModels \cup {"no_such_model"} : \E job_id \in JobIds :
          log_selection(model_id, job_id)

SelectSpec == SelectInit /\ [][SelectNext]_vars

\* the selections accepted for the job
Accepted == SelectSeq(logged, LAMBDA e : e.job_id = "job1" /\ e.status = "logged")

\* C22: at most one selection is ever recorded for a job: a further one is
\* rejected, whether it comes through /log-selection or through a second
\* button of the view.
C22_OneSelectionPerJob ==
    /\ Len(Accepted) <= 1
    /\ view.accepted <= 1

\* C23: a recorded selection names a provider that produced a successful
\* outcome in that job; an unknown id or a non-successful one is rejected.
C23_SelectionNamesSuccess ==
    /\ \A k \in DOMAIN Accepted :
          \E i \in DOMAIN job : is_success(job[i]) /\ ModelId(job[i]) = Accepted[k].model_id
    /\ view.selected_model # "None" =>
          \E i \in DOMAIN job : is_success(job[i]) /\ ModelId(job[i]) = view.selected_model

\* C24: the successful outcomes presented for selection are exactly the
\* successful outcomes of the result, ordered by provider priority ascending,
\* ties broken by completion order.
C24_PresentedByPriority ==
    (sys = "core" /\ pc = "returned") =>
        LET shown == SelectSeq(collected, LAMBDA i : is_success(tasks[i].res)) IN
        /\ successful(results) = [k \in DOMAIN shown |-> tasks[shown[k]].res]
        /\ \A a, b \in DOMAIN shown :
              a < b =>
                 \/ MODELS[tasks[shown[a]].model].priority
                       < MODELS[tasks[shown[b]].model].priority
                 \/ /\ MODELS[tasks[shown[a]].model].priority
                          = MODELS[tasks[shown[b]].model].priority
                    /\ Rank(shown[a]) < Rank(shown[b])

\* C25: execute never raises and never withholds its result because fewer
\* than min_successful providers succeeded: when the gather or the sequential
\* loop came back, the returned result holds the outcome of every unit.
C25_ThresholdOnlyLogged ==
    sys = "service" =>
        /\ pc # "raised"
        /\ (pc = "returned" /\ collected # <<>>) =>
              /\ results = [k \in DOMAIN collected |-> tasks[collected[k]].res]
              /\ Len(results) = Len(available)

\* execute returned every outcome of a call in which no provider succeeded
C25_Witness ==
    /\ sys = "service" /\ pc = "returned"
    /\ BelowMinimum(counts)
    /\ results # <<>>
    /\ Len(results) = Len(available)
    /\ \A k \in DOMAIN results : ~is_success(results[k])

-----------------------------------------------------------------------------
(* The Lanczos transform: Masq.upscale (core) and UpscalerService.upscale    *)
(* with _upscale_sync (service).  An image is its Pillow mode and its size;  *)
(* a payload Pillow cannot identify is the image of mode "undecodable".      *)

\* what a step of the transform leaves alone
upFrame == <<sys, clock, callVars, dispatchVars, concVars, pipeVars, selVars, kieVars>>

\* Pillow modes, and those that carry an alpha channel
Modes == {"RGBA", "RGB", "LA", "L", "P"}
AlphaModes == {"RGBA", "LA"}

Payloads ==
    {[mode |-> m, size |-> <<w, h>>] : m \in Modes, w \in 1..MaxSide, h \in 1..MaxSide}
    \cup {[mode |-> "undecodable", size |-> <<0, 0>>]}

\* the scales a caller may pass
ScaleArgs == (0 - 1)..(ScaleLimit + 2)

\* max(1, min(scale, 8)) without its lower bound: the sensitivity case of C26
Clamp_upper_only(scale) == IF scale < ScaleLimit THEN scale ELSE ScaleLimit

\* scale = max(1, min(scale, 8))
Clamp(scale) ==
    LET low == IF scale < ScaleLimit THEN scale ELSE ScaleLimit
    IN  IF low > 1 THEN low ELSE 1

\* a new size that scales the width only: the sensitivity case of C27
NewSize_width_only(size, scale) == <<size[1] * scale, size[2]>>

\* new_size = (orig_size[0] * scale, orig_size[1] * scale)
NewSize(size, scale) == <<size[1] * scale, size[2] * scale>>

\* _process / _upscale_sync on an image Pillow opened: the operations applied
\* in order, the image written and the has_alpha reported
_upscale_sync(img, scale, preserve_alpha) ==
    LET has_alpha == img.mode = "RGBA"
        new_size == NewSize(img.size, scale)
    IN  IF preserve_alpha /\ has_alpha
        THEN [steps |-> <<"resize">>,
              output |-> [mode |-> img.mode, size |-> new_size], has_alpha |-> has_alpha]
        ELSE IF img.mode = "RGBA"
        THEN [steps |-> <<"paste_on_white", "resize">>,
              output |-> [mode |-> "RGB", size |-> new_size], has_alpha |-> FALSE]
        ELSE IF img.mode # "RGB"
        THEN [steps |-> <<"convert_rgb", "resize">>,
              output |-> [mode |-> "RGB", size |-> new_size], has_alpha |-> has_alpha]
        ELSE [steps |-> <<"resize">>,
              output |-> [mode |-> "RGB", size |-> new_size], has_alpha |-> has_alpha]

\* what upscale returns for an exception of the awaited thread.  core has one
\* `except Exception` and str(e), empty for a TimeoutError; the service names
\* the timeout.
UpscaleError(ev) ==
    IF ev.kind = "TimeoutError"
    THEN UpscaleFailure(IF sys = "core" THEN "" ELSE "Upscaling timeout after")
    ELSE UpscaleFailure(ev.msg)

\* upscale is called: the scale is defaulted (service) and clamped, the work
\* is handed to the executor
upscale(image, scale, is_none, preserve_alpha) ==
    /\ transform.pc = "idle"
    /\ is_none => (sys = "service" /\ scale = DefaultScale)
    /\ transform' = [transform EXCEPT !.pc = "executor", !.image = image,
                                      !.scale_arg = scale, !.scale_is_none = is_none,
                                      !.preserve_alpha = preserve_alpha,
                                      !.scale = Clamp(scale)]
    /\ UNCHANGED <<upFrame, up_result>>

\* the thread returned within the timeout: UpscaleResult(success=True, ...)
UpscaleReturns ==
    /\ transform.pc = "executor"
    /\ transform.image.mode # "undecodable"
    /\ LET p == _upscale_sync(transform.image, transform.scale, transform.preserve_alpha)
       IN /\ transform' = [transform EXCEPT !.pc = "returned", !.steps = p.steps,
                                            !.output = p.output]
          /\ up_result' = [success |-> TRUE, has_image |-> TRUE,
                           original_size |-> transform.image.size,
                           upscaled_size |-> p.output.size,
                           scale_factor |-> transform.scale,
                           has_alpha |-> p.has_alpha, error |-> NoError]
    /\ UNCHANGED upFrame

\* Image.open cannot identify the payload, or the thread fails otherwise
UpscaleRaises(e) ==
    /\ transform.pc = "executor"
    /\ (transform.image.mode = "undecodable") = (e = "cannot identify image file")
    /\ transform' = [transform EXCEPT !.pc = "returned"]
    /\ up_result' = UpscaleError(Raised(e))
    /\ UNCHANGED upFrame

\* wait_for(..., timeout=60) expires
UpscaleTimesOut ==
    /\ transform.pc = "executor"
    /\ transform' = [transform EXCEPT !.pc = "returned"]
    /\ up_result' = UpscaleError(RaisedTimeout)
    /\ UNCHANGED upFrame

UpscaleErrors == {"cannot identify image file", "MemoryError"}

UpscaleInit ==
    /\ sys \in {"core", "service"}
    /\ NoCall
    /\ NoCalls
    /\ NoPipeline
    /\ NoSelection
    /\ NoTransform
    /\ NoKie

UpscaleNext ==
    \/ \E image \in Payloads : \E scale \in ScaleArgs : \E is_none, preserve_alpha \in BOOLEAN :
          upscale(image, scale, is_none, preserve_alpha)
    \/ UpscaleReturns
    \/ \E e \in UpscaleErrors : UpscaleRaises(e)
    \/ UpscaleTimesOut

UpscaleSpec == UpscaleInit /\ [][UpscaleNext]_vars

\* the transform succeeded
Transformed == transform.pc = "returned" /\ up_result.success

\* C26: the scale is clamped into [1, 8] and never rejected: the transform
\* works with max(1, min(scale, 8)), reports it as scale_factor, and can
\* return its image whatever the scale asked for.
C26_ScaleClamped ==
    /\ transform.pc # "idle" =>
          /\ transform.scale \in 1..ScaleLimit
          /\ transform.scale_arg \in 1..ScaleLimit => transform.scale = transform.scale_arg
          /\ transform.scale_arg < 1 => transform.scale = 1
          /\ transform.scale_arg > ScaleLimit => transform.scale = ScaleLimit
    /\ Transformed => up_result.scale_factor = transform.scale
    /\ (transform.pc = "executor" /\ transform.image.mode # "undecodable")
          => ENABLED UpscaleReturns

\* a transform asked for a scale outside [1, 8] succeeded
C26_Witness ==
    /\ Transformed
    /\ transform.scale_arg \notin 1..ScaleLimit
    /\ up_result.scale_factor \in {1, ScaleLimit}

\* C27: a successful transform of a (W, H) image reports original_size (W, H)
\* and upscaled_size (s*W, s*H), s the clamped scale, and writes an image of
\* that size; scale 1 on a preserved RGBA image leaves the size and reports
\* has_alpha, scale 4 gives (4*W, 4*H).
C27_SizesScaled ==
    Transformed =>
        LET w == transform.image.size[1]
            h == transform.image.size[2]
        IN
        /\ up_result.original_size = <<w, h>>
        /\ up_result.upscaled_size = <<transform.scale * w, transform.scale * h>>
        /\ transform.output.size = up_result.upscaled_size
        /\ (transform.scale_arg = 1 /\ transform.preserve_alpha
              /\ transform.image.mode = "RGBA") =>
                 /\ up_result.upscaled_size = <<w, h>>
                 /\ up_result.has_alpha
        /\ transform.scale_arg = 4 => up_result.upscaled_size = <<4 * w, 4 * h>>

\* a non-square image was transformed at scale 4
C27_Witness ==
    /\ Transformed
    /\ transform.scale_arg = 4
    /\ transform.image.size = <<1, 2>>
    /\ up_result.upscaled_size = <<4, 8>>

\* C28: a source with an alpha channel, in any mode that has one, transformed
\* with preserve_alpha is resized as it is, the output keeps its alpha channel
\* and has_alpha is reported true.
C28_AlphaPreserved ==
    (Transformed /\ transform.image.mode \in AlphaModes /\ transform.preserve_alpha) =>
        /\ transform.steps = <<"resize">>
        /\ transform.output.mode \in AlphaModes
        /\ up_result.has_alpha

\* C29: a source with alpha transformed without preserve_alpha is first
\* composited onto opaque white through its alpha, then resized, and written
\* without alpha; has_alpha is reported false.
C29_CompositeThenResize ==
    (Transformed /\ transform.image.mode \in AlphaModes /\ ~transform.preserve_alpha) =>
        /\ transform.steps = <<"paste_on_white", "resize">>
        /\ transform.output.mode \notin AlphaModes
        /\ ~up_result.has_alpha

\* an UpscaleResult without the text of its message
Kind(r) == [r EXCEPT !.error = IF r.error = NoError THEN NoError ELSE "text"]

\* C30: the transform of an undecodable payload returns a failure without
\* image that the caller can tell, other than by the text of the message,
\* from a timeout and from another failure.
C30_InvalidImageDistinct ==
    (transform.pc = "returned" /\ transform.image.mode = "undecodable"
        /\ up_result.error = "cannot identify image file") =>
        /\ ~up_result.success
        /\ ~up_result.has_image
        /\ Kind(up_result) # Kind(UpscaleError(RaisedTimeout))
        /\ Kind(up_result) # Kind(UpscaleError(Raised("MemoryError")))

-----------------------------------------------------------------------------
(* The shared Runware client of a Masq instance, in the calls of Spec.       *)

\* C31: no background-removal request is issued on the shared Runware client
\* before its connect() has completed: a unit of the core engine that awaits
\* imageBackgroundRemoval does so on a connected client.
C31_RequestAfterConnect ==
    sys = "core" =>
        \A i \in Units : tasks[i].ph = "request" => runware_client = "connected"

\* C32: a Runware client whose connect() failed is not retained: the unit that
\* connected ends Failed, and a client that never connected exists only while
\* a unit awaits its connect().
C32_FailedClientDropped ==
    sys = "core" =>
        /\ \A i \in Units :
              (tasks[i].ph = "done" /\ tasks[i].ev.kind = "Exception")
                  => tasks[i].res.status = "failed"
        /\ runware_client = "unconnected" => \E i \in Units : tasks[i].ph = "connect"

-----------------------------------------------------------------------------
(* The ModelSelectView under several presses, in the steps of SelectSpec.    *)

\* C33: once a press of the owning user has been accepted, selected_model
\* never changes: a second press delivered while the first callback awaits
\* edit_message does not overwrite it.
C33_SelectionNeverOverwritten ==
    [][view.selected_model # "None" => view'.selected_model = view.selected_model]_vars

\* C34: a press by another user leaves the view as it was (selected_model not
\* set, no button disabled, not stopped), and a view that timed out with no
\* accepted press has selected_model None, so that nothing is logged.
C34_OtherUserIgnored ==
    /\ [][view'.refused # view.refused =>
             /\ view'.selected_model = view.selected_model
             /\ view'.disabled = view.disabled
             /\ view'.stopped = view.stopped
             /\ view'.buttons = view.buttons
             /\ logged' = logged]_vars
    /\ []((sys = "core" /\ view.accepted = 0) =>
             /\ view.selected_model = "None"
             /\ logged = <<>>)

\* bg_command resumed from a view that another user pressed and that then
\* timed out
C34_Witness ==
    /\ view.refused > 0
    /\ view.accepted = 0
    /\ view.disabled /\ view.stopped /\ view.waited
    /\ logged = <<>>

-----------------------------------------------------------------------------
(* Local units and the workers of the pool.                                  *)

\* C35: a local unit that has its outcome (Success, Failed, Timeout) or was
\* cancelled at the batch deadline no longer occupies a worker of the pool.
C35_EndedUnitFreesWorker ==
    \A i \in Units :
        (Provider(i) = "local" /\ ~Running(i) /\ pc \in {"waiting", "single"})
            => i \notin executor.running

\* C36: a local unit is recorded Timeout only if its inference started on a
\* worker: in the step that gives a unit awaiting the pool its Timeout
\* outcome, its job is on a worker thread, not in the queue.  (ConcSpec has no
\* clock: a wait_for, armed when the job is submitted, may expire whenever the
\* jobs ahead in the queue have not ended, however long they run.)
C36_QueueTimeNotCounted ==
    [][\A j \in Jobs :
          (IsLocal(j) /\ UnitOf(j).ph = "executor"
             /\ calls'[j[1]].units[j[2]].res.status = "timeout")
              => j \in pool.running]_vars

-----------------------------------------------------------------------------
(* The polling of one Kie task: the loop of Masq._run_kie (core) and         *)
(* KieProvider._poll_task under the wait_for of remove_background (service). *)
(* The task was created; each turn of the loop asks recordInfo for its       *)
(* state, and sleeps when it is neither "success" nor "fail".                *)

kieFrame == <<sys, clock, callVars, dispatchVars, concVars, pipeVars, selVars, upVars>>

\* the states recordInfo reports
KieStates == {"waiting", "generating", "success", "fail"}

\* a loop that polls until the task ends: the sensitivity case of C37
PollAgain_forever(polls) == TRUE

\* `for _ in range(60)` / `for _ in range(self.max_poll_attempts)`
PollAgain(polls) == polls < KiePolls

\* the outcome of the unit for how its coroutine ended
KieOutcome(ev) ==
    IF sys = "core" THEN _run_model("kie_recraft", ev)
    ELSE _run_single_model("kie_recraft", ev)

KieEnds(ev) == kie' = [kie EXCEPT !.pc = "done", !.res = KieOutcome(ev)]

\* service: wait_for(self._poll_task(...), timeout=self.timeout) can have
\* expired (every turn lasts up to the request timeout and the sleep), and
\* must have (every turn lasts at least the sleep)
KieWaitForCanExpire ==
    sys = "service" /\ kie.polls * (KiePollTimeout + KiePollSleep) >= ProviderTimeout
KieWaitForMustExpire ==
    sys = "service" /\ kie.polls * KiePollSleep >= ProviderTimeout

\* createTask returned a taskId: the loop begins
KieTaskCreated ==
    /\ kie.pc = "idle"
    /\ kie' = [kie EXCEPT !.pc = IF PollAgain(0) THEN "poll" ELSE "exhausted"]
    /\ UNCHANGED kieFrame

\* one poll: recordInfo answers with the state of the task
KiePoll(state) ==
    /\ kie.pc = "poll"
    /\ ~KieWaitForMustExpire
    /\ CASE state = "success" ->
              kie' = [kie EXCEPT !.polls = @ + 1, !.pc = "download", !.seen_success = TRUE]
         [] state = "fail" ->
              kie' = [kie EXCEPT !.polls = @ + 1, !.pc = "done",
                                 !.res = KieOutcome(Raised("Kie task failed"))]
         [] OTHER ->
              kie' = [kie EXCEPT !.polls = @ + 1, !.pc = "sleep"]
    /\ UNCHANGED kieFrame

\* one poll: the request times out or raise_for_status raises
KiePollRaises(e) ==
    /\ kie.pc = "poll"
    /\ ~KieWaitForMustExpire
    /\ kie' = [kie EXCEPT !.polls = @ + 1, !.pc = "done", !.res = KieOutcome(Raised(e))]
    /\ UNCHANGED kieFrame

\* asyncio.sleep returned: the loop takes its next turn, or is over
KieSleeps ==
    /\ kie.pc = "sleep"
    /\ ~KieWaitForMustExpire
    /\ kie.polls <= KiePolls
    /\ kie' = [kie EXCEPT !.pc = IF PollAgain(kie.polls) THEN "poll" ELSE "exhausted"]
    /\ UNCHANGED kieFrame

\* the loop is over: raise TimeoutError(...), the builtin, which
\* `except asyncio.TimeoutError` catches on Python 3.11 and later and
\* `except Exception` before
KieLoopExhausted(caught_as_timeout) ==
    /\ kie.pc = "exhausted"
    /\ KieEnds(IF caught_as_timeout THEN RaisedTimeout
               ELSE Raised("Kie task did not complete"))
    /\ UNCHANGED kieFrame

\* service: the wait_for around _poll_task expires
KieWaitForExpires ==
    /\ kie.pc \in {"poll", "sleep"}
    /\ KieWaitForCanExpire
    /\ KieEnds(RaisedTimeout)
    /\ UNCHANGED kieFrame

\* the result image is downloaded, or the download raises
KieResultDownloaded(ev) ==
    /\ kie.pc = "download"
    /\ KieEnds(ev)
    /\ UNCHANGED kieFrame

KiePollInit ==
    /\ sys \in {"core", "service"}
    /\ NoCall
    /\ NoCalls
    /\ NoPipeline
    /\ NoSelection
    /\ NoTransform
    /\ NoKie

KiePollNext ==
    \/ KieTaskCreated
    \/ \E state \in KieStates : KiePoll(state)
    \/ \E e \in {"HTTPStatusError", "ReadTimeout"} : KiePollRaises(e)
    \/ KieSleeps
    \/ \E caught_as_timeout \in BOOLEAN : KieLoopExhausted(caught_as_timeout)
    \/ KieWaitForExpires
    \/ \E ev \in {Returned, Raised("HTTPStatusError")} : KieResultDownloaded(ev)

KiePollSpec == KiePollInit /\ [][KiePollNext]_vars

\* the event loop runs every coroutine that can take a step
KiePollLiveSpec == KiePollSpec /\ WF_vars(KiePollNext)

\* C37: a Kie unit always terminates: it makes at most max_poll_attempts (60)
\* polls, and when no poll sees the task succeed it ends with an outcome that
\* is not Success, Timeout or Failed, instead of polling forever.
C37_KieTerminates ==
    /\ [](kie.polls <= KiePolls)
    /\ []((kie.pc = "done" /\ ~kie.seen_success) =>
             kie.res.status \in {"timeout", "failed"})
    /\ <>(kie.pc = "done")

\* the core unit ended after 60 polls that never saw the task end
C37_Witness ==
    /\ sys = "core"
    /\ kie.pc = "done"
    /\ kie.polls = KiePolls
    /\ ~kie.seen_success
    /\ kie.res.status \in {"timeout", "failed"}

-----------------------------------------------------------------------------
(* The total cost of a result, in the calls of ConcSpec.                     *)

RECURSIVE CostOver(_, _)
\* the costs of the outcomes of rs at the positions S, added up
CostOver(rs, S) ==
    IF S = {} THEN 0
    ELSE LET k == CHOOSE x \in S : TRUE IN rs[k].cost + CostOver(rs, S \ {k})

\* total_cost of the result of call c: derived from the outcomes (core), kept
\* by add_result (service)
TotalCost(c) ==
    IF sys = "core" THEN total_cost(calls[c].results) ELSE calls[c].counts.total_cost

\* C38: the total cost of a result equals the sum of the costs of its
\* outcomes, and so the sum of the costs of its Success outcomes alone.
C38_TotalCostIsSum ==
    \A c \in Calls :
        LET rs == calls[c].results IN
        /\ TotalCost(c) = CostOver(rs, DOMAIN rs)
        /\ TotalCost(c) = CostOver(rs, {k \in DOMAIN rs : is_success(rs[k])})

\* a returned result holds a paid Success and an outcome that is no Success
C38_Witness ==
    \E c \in Calls :
        LET rs == calls[c].results IN
        /\ calls[c].pc = "returned"
        /\ TotalCost(c) > 0
        /\ \E k \in DOMAIN rs : ~is_success(rs[k])
        /\ \E k \in DOMAIN rs : is_success(rs[k]) /\ rs[k].cost > 0

====
